---- MODULE Spec2Model ----
(***************************************************************************)
(* A model of the stream computation engine of postgres_mcp.truf:          *)
(*   - ComposedStreamTool.get_record_composed and the SQL text built by    *)
(*     _build_composed_record_query (composed_stream.py), one operator per *)
(*     common table expression, named as in the query;                     *)
(*   - PrimitiveStreamTool.get_index and its helpers (primitive_stream.py) *)
(*     with the SQL texts of query.py they run.                            *)
(* The event store (streams, taxonomies, primitive_events, metadata) is    *)
(* the state; it only grows (append-only log).  Every request is one       *)
(* action that reads the store and leaves the response in `response`.      *)
(*                                                                         *)
(* Numbers.  Stored values and weights are NUMERIC(36,18); the model keeps *)
(* the ones with no fractional part, as integers.  A quotient is kept as a *)
(* fixed-point integer in units of 10^-ScaleDigits (18 digits in the code).*)
(* Times are int8; max_int8 stands for 9223372036854775000 and only has to *)
(* exceed every stored time by more than 2.  hierarchy_max_level stands    *)
(* for the depth bound 1000 of the record query's hierarchy and only has   *)
(* to exceed the depth of every acyclic taxonomy of the model and the      *)
(* bound 10 of the index query, which is kept.                             *)
(***************************************************************************)
EXTENDS Integers, Sequences, FiniteSets, TLC

VARIABLES
    taxonomies,        \* table taxonomies: set of rows
    primitive_events,  \* table primitive_events: set of rows
    metadata,          \* table metadata: set of rows
    clock,             \* transaction time of the store (next created_at)
    request,           \* the request being answered, or Idle
    response           \* the response to `request`

vars == <<taxonomies, primitive_events, metadata, clock, request, response>>

----------------------------------------------------------------------------
(* Bounds of the model *)

MaxTime == 2
MaxEvents == 2
MaxTaxonomyGroups == 2
MaxMetadata == 1
ScaleDigits == 2
MantissaBits == 8

max_int8 == 1000
hierarchy_max_level == 12

\* SQL NULL and Python None: below every time and every number of the model
NULL == 0 - max_int8

Times == 0 .. MaxTime
Scale == 10 ^ ScaleDigits

----------------------------------------------------------------------------
(* Generic helpers *)

COALESCE(x, d) == IF x = NULL THEN d ELSE x

GREATEST(a, b) == IF a >= b THEN a ELSE b

LEAST(a, b) == IF a <= b THEN a ELSE b

Abs(x) == IF x < 0 THEN 0 - x ELSE x

Sgn(x) == IF x < 0 THEN 0 - 1 ELSE 1

RECURSIVE SUM(_, _)
\* SQL SUM of f[r] over the rows r of S (0 for no rows: every use is COALESCEd
\* or ranges over a non-empty group)
SUM(f, S) ==
    IF S = {} THEN 0
    ELSE LET r == CHOOSE x \in S : TRUE
         IN  f[r] + SUM(f, S \ {r})

MaxOf(S) == CHOOSE x \in S : \A y \in S : y <= x

MinOf(S) == CHOOSE x \in S : \A y \in S : x <= y

----------------------------------------------------------------------------
(* The stream catalog (table streams).  Streams are immutable once created; *)
(* the catalog is the same in every state.                                  *)

streams ==
    { [stream_ref |-> "C", stream_type |-> "composed"],
      [stream_ref |-> "D", stream_type |-> "composed"],
      [stream_ref |-> "A", stream_type |-> "primitive"],
      [stream_ref |-> "B", stream_type |-> "primitive"] }

StreamRefs == { s.stream_ref : s \in streams }

Primitives == { s.stream_ref : s \in { x \in streams : x.stream_type = "primitive" } }

----------------------------------------------------------------------------
(* _build_composed_record_query, one operator per common table expression    *)
(* (CTE).  Each operator takes the tables and CTEs its FROM clause reads:     *)
(* tx is the table taxonomies, pe the table primitive_events, qp the row of   *)
(* query_params.  composed_record_ctes chains them as the WITH clause does.   *)

\* query_params: $2 stream_id, $3 from_time, $4 to_time, $5 frozen_at
query_params(stream_id, from_time, to_time, frozen_at) ==
    [ stream_id           |-> stream_id,
      from_time           |-> from_time,
      to_time             |-> to_time,
      effective_from      |-> COALESCE(from_time, 0),
      effective_to        |-> COALESCE(to_time, max_int8),
      effective_frozen_at |-> COALESCE(frozen_at, max_int8) ]

\* stream_validation: the root's stream_ref, when it is a composed stream
stream_validation(qp) ==
    { s.stream_ref : s \in { x \in streams : /\ x.stream_ref = qp.stream_id
                                             /\ x.stream_type = "composed" } }

parent_distinct_start_times(tx) ==
    { [stream_ref |-> t.stream_ref, start_time |-> t.start_time] :
        t \in { x \in tx : x.disabled_at = NULL } }

\* A variant of parent_next_starts whose window is not partitioned by parent
parent_next_starts_all_parents(pdst) ==
    { [ stream_ref |-> p.stream_ref,
        start_time |-> p.start_time,
        next_start_time |->
            LET later == { q.start_time : q \in { x \in pdst : x.start_time > p.start_time } }
            IN  IF later = {} THEN NULL ELSE MinOf(later) ] :
        p \in pdst }

\* LEAD(start_time) OVER (PARTITION BY stream_ref ORDER BY start_time)
parent_next_starts(pdst) ==
    { [ stream_ref |-> p.stream_ref,
        start_time |-> p.start_time,
        next_start_time |->
            LET later == { q.start_time :
                             q \in { x \in pdst : /\ x.stream_ref = p.stream_ref
                                                  /\ x.start_time > p.start_time } }
            IN  IF later = {} THEN NULL ELSE MinOf(later) ] :
        p \in pdst }

\* MAX(group_sequence) of the non-disabled rows of one (parent, start_time)
max_gs_filter(tx, stream_ref, start_time) ==
    MaxOf({ x.group_sequence :
              x \in { y \in tx : /\ y.disabled_at = NULL
                                 /\ y.stream_ref = stream_ref
                                 /\ y.start_time = start_time } })

\* A variant of taxonomy_true_segments that takes every enabled version
taxonomy_true_segments_any_version(tx, pns) ==
    { [ stream_ref         |-> t.stream_ref,
        child_stream_ref   |-> t.child_stream_ref,
        weight_for_segment |-> t.weight,
        segment_start      |-> t.start_time,
        segment_end        |->
            COALESCE((CHOOSE p \in pns : /\ p.stream_ref = t.stream_ref
                                         /\ p.start_time = t.start_time
                     ).next_start_time, max_int8) - 1 ] :
        t \in { x \in tx : x.disabled_at = NULL } }

taxonomy_true_segments(tx, pns) ==
    { [ stream_ref         |-> t.stream_ref,
        child_stream_ref   |-> t.child_stream_ref,
        weight_for_segment |-> t.weight,
        segment_start      |-> t.start_time,
        segment_end        |->
            COALESCE((CHOOSE p \in pns : /\ p.stream_ref = t.stream_ref
                                         /\ p.start_time = t.start_time
                     ).next_start_time, max_int8) - 1 ] :
        t \in { x \in tx :
                  /\ x.disabled_at = NULL
                  /\ x.group_sequence = max_gs_filter(tx, x.stream_ref, x.start_time) } }

\* The scalar subquery on t_anchor: the root's latest start_time at or before
\* effective_from, COALESCEd to 0
anchor_start(tx, root, qp) ==
    LET starts == { t.start_time :
                      t \in { x \in tx : /\ x.stream_ref = root
                                         /\ x.disabled_at = NULL
                                         /\ x.start_time <= qp.effective_from } }
    IN  IF starts = {} THEN 0 ELSE MaxOf(starts)

\* hierarchy, base case.  A row carries the path of streams that produced it:
\* the query's rows form a bag, and two paths may give equal columns.
hierarchy_base(tx, tts, qp) ==
    { [ descendant_stream_ref |-> t.child_stream_ref,
        raw_weight            |-> t.weight_for_segment,
        path_start            |-> t.segment_start,
        path_end              |-> t.segment_end,
        level                 |-> 1,
        path                  |-> <<t.stream_ref, t.child_stream_ref>> ] :
        t \in { x \in tts :
                  /\ x.stream_ref \in stream_validation(qp)
                  /\ x.segment_end >= anchor_start(tx, x.stream_ref, qp)
                  /\ x.segment_start <= qp.effective_to } }

\* A variant of hierarchy_step that expands the rows of the last level too
hierarchy_step_one_more(tx, tts, qp, rows) ==
    LET joined == { j \in rows \X tts :
                      /\ j[1].descendant_stream_ref = j[2].stream_ref
                      /\ GREATEST(j[1].path_start, j[2].segment_start)
                            <= LEAST(j[1].path_end, j[2].segment_end)
                      /\ \A root \in stream_validation(qp) :
                            LEAST(j[1].path_end, j[2].segment_end)
                               >= anchor_start(tx, root, qp)
                      /\ GREATEST(j[1].path_start, j[2].segment_start)
                            <= qp.effective_to
                      /\ j[1].level <= hierarchy_max_level }
    IN  { [ descendant_stream_ref |-> j[2].child_stream_ref,
            raw_weight            |-> j[1].raw_weight * j[2].weight_for_segment,
            path_start            |-> GREATEST(j[1].path_start, j[2].segment_start),
            path_end              |-> LEAST(j[1].path_end, j[2].segment_end),
            level                 |-> j[1].level + 1,
            path                  |-> Append(j[1].path, j[2].child_stream_ref) ] :
            j \in joined }

\* hierarchy, recursive step applied to the rows of the previous iteration
hierarchy_step(tx, tts, qp, rows) ==
    LET joined == { j \in rows \X tts :
                      /\ j[1].descendant_stream_ref = j[2].stream_ref
                      /\ GREATEST(j[1].path_start, j[2].segment_start)
                            <= LEAST(j[1].path_end, j[2].segment_end)
                      /\ \A root \in stream_validation(qp) :
                            LEAST(j[1].path_end, j[2].segment_end)
                               >= anchor_start(tx, root, qp)
                      /\ GREATEST(j[1].path_start, j[2].segment_start)
                            <= qp.effective_to
                      /\ j[1].level < hierarchy_max_level }
    IN  { [ descendant_stream_ref |-> j[2].child_stream_ref,
            raw_weight            |-> j[1].raw_weight * j[2].weight_for_segment,
            path_start            |-> GREATEST(j[1].path_start, j[2].segment_start),
            path_end              |-> LEAST(j[1].path_end, j[2].segment_end),
            level                 |-> j[1].level + 1,
            path                  |-> Append(j[1].path, j[2].child_stream_ref) ] :
            j \in joined }

RECURSIVE hierarchy_from(_, _, _, _)
hierarchy_from(tx, tts, qp, rows) ==
    IF rows = {} THEN {}
    ELSE rows \cup hierarchy_from(tx, tts, qp, hierarchy_step(tx, tts, qp, rows))

hierarchy(tx, tts, qp) == hierarchy_from(tx, tts, qp, hierarchy_base(tx, tts, qp))

\* A variant of hierarchy_primitive_paths that keeps streams of every kind
hierarchy_primitive_paths_any_kind(h) == h

hierarchy_primitive_paths(h) ==
    { r \in h : \E s \in streams : /\ s.stream_ref = r.descendant_stream_ref
                                   /\ s.stream_type = "primitive" }

primitive_weights(hpp) ==
    { [ primitive_stream_ref |-> r.descendant_stream_ref,
        raw_weight           |-> r.raw_weight,
        group_sequence_start |-> r.path_start,
        group_sequence_end   |-> r.path_end,
        path                 |-> r.path ] : r \in hpp }

\* initial_primitive_states: per contributing stream, the row that is first
\* by (event_time DESC, created_at DESC) among those at or before
\* effective_from and visible under the cutoff
initial_primitive_states(pe, pw, qp) ==
    LET cand == { e \in pe :
                    /\ e.event_time <= qp.effective_from
                    /\ \E w \in pw : w.primitive_stream_ref = e.stream_ref
                    /\ e.created_at <= qp.effective_frozen_at }
        rn1  == { e \in cand :
                    \A o \in cand :
                       o.stream_ref = e.stream_ref =>
                          \/ o.event_time < e.event_time
                          \/ /\ o.event_time = e.event_time
                             /\ o.created_at <= e.created_at }
    IN  { [stream_ref |-> e.stream_ref, event_time |-> e.event_time,
           value |-> e.value] : e \in rn1 }

\* A variant of primitive_events_in_interval that ignores the cutoff
primitive_events_in_interval_unfrozen(pe, pw, qp) ==
    LET cand == { e \in pe :
                    /\ \E w \in pw :
                          /\ w.primitive_stream_ref = e.stream_ref
                          /\ e.event_time >= w.group_sequence_start
                          /\ e.event_time <= w.group_sequence_end
                    /\ e.event_time > qp.effective_from
                    /\ e.event_time <= qp.effective_to }
        rn1  == { e \in cand :
                    \A o \in cand :
                       (o.stream_ref = e.stream_ref /\ o.event_time = e.event_time)
                          => o.created_at <= e.created_at }
    IN  { [stream_ref |-> e.stream_ref, event_time |-> e.event_time,
           value |-> e.value] : e \in rn1 }

\* primitive_events_in_interval: events in (effective_from, effective_to]
\* joined to a weight segment that contains them; per (stream, event_time)
\* the row with the greatest created_at under the cutoff
primitive_events_in_interval(pe, pw, qp) ==
    LET cand == { e \in pe :
                    /\ \E w \in pw :
                          /\ w.primitive_stream_ref = e.stream_ref
                          /\ e.event_time >= w.group_sequence_start
                          /\ e.event_time <= w.group_sequence_end
                    /\ e.event_time > qp.effective_from
                    /\ e.event_time <= qp.effective_to
                    /\ e.created_at <= qp.effective_frozen_at }
        rn1  == { e \in cand :
                    \A o \in cand :
                       (o.stream_ref = e.stream_ref /\ o.event_time = e.event_time)
                          => o.created_at <= e.created_at }
    IN  { [stream_ref |-> e.stream_ref, event_time |-> e.event_time,
           value |-> e.value] : e \in rn1 }

all_primitive_points(ips, pei) == ips \cup pei

\* A variant of primitive_event_changes whose delta_value is the value of the
\* point itself
primitive_event_changes_absolute(app) ==
    { [ stream_ref  |-> p.stream_ref,
        event_time  |-> p.event_time,
        value       |-> p.value,
        delta_value |-> p.value ] : p \in { q \in app : q.value # 0 } }

\* primitive_event_changes: value - LAG(value) per stream by event_time, the
\* value itself for the first point; zero deltas are dropped
primitive_event_changes(app) ==
    LET prev(p) == { o \in app : /\ o.stream_ref = p.stream_ref
                                 /\ o.event_time < p.event_time }
        lag(p) == (CHOOSE o \in prev(p) :
                      \A o2 \in prev(p) : o2.event_time <= o.event_time).value
        calc == { [ stream_ref  |-> p.stream_ref,
                    event_time  |-> p.event_time,
                    value       |-> p.value,
                    delta_value |-> IF prev(p) = {} THEN p.value
                                    ELSE p.value - lag(p) ] : p \in app }
    IN  { c \in calc : c.delta_value # 0 }

first_value_times(app) ==
    { [ stream_ref |-> s,
        first_value_time |->
            MinOf({ p.event_time : p \in { x \in app : x.stream_ref = s } }) ] :
        s \in { p.stream_ref : p \in app } }

\* A variant of effective_weight_changes without the negative delta at the
\* end of a segment
effective_weight_changes_never_ends(pw, fvt) ==
    LET joined == { j \in pw \X fvt :
                      /\ j[1].primitive_stream_ref = j[2].stream_ref
                      /\ GREATEST(j[1].group_sequence_start, j[2].first_value_time)
                            <= j[1].group_sequence_end
                      /\ j[1].raw_weight # 0 }
    IN  { [ stream_ref   |-> j[1].primitive_stream_ref,
            event_time   |-> GREATEST(j[1].group_sequence_start, j[2].first_value_time),
            weight_delta |-> j[1].raw_weight,
            src          |-> j[1] ] : j \in joined }

\* effective_weight_changes.  A row keeps the primitive_weights row it comes
\* from (src): rows of two segments may agree in every column.
effective_weight_changes(pw, fvt) ==
    LET joined == { j \in pw \X fvt :
                      /\ j[1].primitive_stream_ref = j[2].stream_ref
                      /\ GREATEST(j[1].group_sequence_start, j[2].first_value_time)
                            <= j[1].group_sequence_end
                      /\ j[1].raw_weight # 0 }
    IN  { [ stream_ref   |-> j[1].primitive_stream_ref,
            event_time   |-> GREATEST(j[1].group_sequence_start, j[2].first_value_time),
            weight_delta |-> j[1].raw_weight,
            src          |-> j[1] ] : j \in joined }
        \cup
        { [ stream_ref   |-> j[1].primitive_stream_ref,
            event_time   |-> j[1].group_sequence_end + 1,
            weight_delta |-> 0 - j[1].raw_weight,
            src          |-> j[1] ] :
            j \in { x \in joined : x[1].group_sequence_end < max_int8 - 1 } }

\* unified_events: value changes (priority 1) and weight changes (priority 2)
unified_events(pec, ewc) ==
    { [ stream_ref |-> c.stream_ref, event_time |-> c.event_time,
        delta_value |-> c.delta_value, weight_delta |-> 0,
        event_type_priority |-> 1, src |-> <<>> ] : c \in pec }
    \cup
    { [ stream_ref |-> c.stream_ref, event_time |-> c.event_time,
        delta_value |-> 0, weight_delta |-> c.weight_delta,
        event_type_priority |-> 2, src |-> c.src ] : c \in ewc }

\* ORDER BY event_time ASC, event_type_priority ASC
OrderKeyLeq(a, b) ==
    \/ a.event_time < b.event_time
    \/ /\ a.event_time = b.event_time
       /\ a.event_type_priority <= b.event_type_priority

RECURSIVE SortByOrderKey(_)
\* One sort of the rows of a partition.  Rows with equal keys (several weight
\* changes of one stream at one time) come in an order the database is free
\* to choose.  Such rows have delta_value = 0 and the same running value, so
\* the summand of final_deltas is the same for each of them in every order.
SortByOrderKey(rows) ==
    IF rows = {} THEN <<>>
    ELSE LET first == CHOOSE r \in rows : \A o \in rows : OrderKeyLeq(r, o)
         IN  <<first>> \o SortByOrderKey(rows \ {first})

\* primitive_state_timeline.  The running SUMs have the default frame (RANGE
\* UNBOUNDED PRECEDING .. CURRENT ROW): a row's sum covers the rows of its
\* partition whose order key is not greater, rows of equal key included.
\* LAG reads the previous row of the sort, 0 for the first row.
primitive_state_timeline(ue) ==
    LET part(s) == { r \in ue : r.stream_ref = s }
        frame(r) == { o \in part(r.stream_ref) : OrderKeyLeq(o, r) }
        value_after_event(r) == SUM([o \in frame(r) |-> o.delta_value], frame(r))
        weight_after_event(r) == SUM([o \in frame(r) |-> o.weight_delta], frame(r))
        rowsof(s) ==
            LET state_calc == SortByOrderKey(part(s))
            IN  { [ stream_ref   |-> s,
                    event_time   |-> state_calc[i].event_time,
                    delta_value  |-> state_calc[i].delta_value,
                    weight_delta |-> state_calc[i].weight_delta,
                    value_before_event |->
                        IF i = 1 THEN 0 ELSE value_after_event(state_calc[i - 1]),
                    weight_before_event |->
                        IF i = 1 THEN 0 ELSE weight_after_event(state_calc[i - 1]),
                    row |-> i ] : i \in 1 .. Len(state_calc) }
    IN  UNION { rowsof(s) : s \in { r.stream_ref : r \in ue } }

\* A variant of delta_ws_term that reads weight_before_event where the query
\* reads value_before_event
delta_ws_term_weight_before(r) ==
    (r.delta_value * r.weight_before_event)
    + (r.weight_before_event * r.weight_delta)
    + (r.delta_value * r.weight_delta)

\* The summand of final_deltas
delta_ws_term(r) ==
    (r.delta_value * r.weight_before_event)
    + (r.value_before_event * r.weight_delta)
    + (r.delta_value * r.weight_delta)

\* final_deltas: GROUP BY event_time HAVING delta_ws != 0 OR delta_sw != 0
final_deltas(pst) ==
    LET grp(t) == { r \in pst : r.event_time = t }
        sums == { [ event_time |-> t,
                    delta_ws   |-> SUM([r \in grp(t) |-> delta_ws_term(r)], grp(t)),
                    delta_sw   |-> SUM([r \in grp(t) |-> r.weight_delta], grp(t)) ] :
                    t \in { r.event_time : r \in pst } }
    IN  { d \in sums : d.delta_ws # 0 \/ d.delta_sw # 0 }

\* cumulative_values: running totals by event_time
cumulative_values(fd) ==
    LET upto(t) == { d \in fd : d.event_time <= t }
    IN  { [ event_time |-> d.event_time,
            cum_ws     |-> SUM([o \in upto(d.event_time) |-> o.delta_ws],
                               upto(d.event_time)),
            cum_sw     |-> SUM([o \in upto(d.event_time) |-> o.delta_sw],
                               upto(d.event_time)) ] : d \in fd }

\* NUMERIC division followed by the cast ::NUMERIC(36,18): the quotient in
\* units of 10^-ScaleDigits, rounded half away from zero
numeric_div(a, b) ==
    Sgn(a) * Sgn(b) * ((2 * Abs(a) * Scale + Abs(b)) \div (2 * Abs(b)))

\* aggregated: CASE WHEN cum_sw = 0 THEN 0 ELSE cum_ws / cum_sw END
aggregated_value(cum_ws, cum_sw) ==
    IF cum_sw = 0 THEN 0 ELSE numeric_div(cum_ws, cum_sw)

aggregated(cv) ==
    { [ event_time |-> c.event_time,
        value      |-> aggregated_value(c.cum_ws, c.cum_sw) ] : c \in cv }

\* A variant of latest_record_case with ORDER BY event_time ASC
latest_record_case_earliest(agg, qp) ==
    IF qp.from_time = NULL /\ qp.to_time = NULL
    THEN { a \in agg : \A o \in agg : o.event_time >= a.event_time }
    ELSE {}

\* latest_record_case: WHERE $3 IS NULL AND $4 IS NULL
\*                     ORDER BY event_time DESC LIMIT 1
latest_record_case(agg, qp) ==
    IF qp.from_time = NULL /\ qp.to_time = NULL
    THEN { a \in agg : \A o \in agg : o.event_time <= a.event_time }
    ELSE {}

\* A variant of range_case without the lower bound
range_case_unbounded(agg, qp) ==
    { a \in agg :
        /\ ~(qp.from_time = NULL /\ qp.to_time = NULL)
        /\ a.event_time <= qp.effective_to }

\* range_case: the rows of aggregated inside [effective_from, effective_to]
range_case(agg, qp) ==
    { a \in agg :
        /\ ~(qp.from_time = NULL /\ qp.to_time = NULL)
        /\ a.event_time >= qp.effective_from
        /\ a.event_time <= qp.effective_to }

RECURSIVE OrderByEventTime(_)
\* ORDER BY event_time ASC of rows with distinct event_time
OrderByEventTime(rows) ==
    IF rows = {} THEN <<>>
    ELSE LET first == CHOOSE r \in rows : \A o \in rows : r.event_time <= o.event_time
         IN  <<first>> \o OrderByEventTime(rows \ {first})

\* The final SELECT: latest_record_case if it has a row, else range_case
final_result(lrc, rc) ==
    OrderByEventTime(IF lrc # {} THEN lrc ELSE rc)

\* The WITH clause: every CTE of the query, computed from the tables
composed_record_ctes(tx, pe, qp) ==
    LET pns == parent_next_starts(parent_distinct_start_times(tx))
        tts == taxonomy_true_segments(tx, pns)
        h   == hierarchy(tx, tts, qp)
        pw  == primitive_weights(hierarchy_primitive_paths(h))
        ips == initial_primitive_states(pe, pw, qp)
        pei == primitive_events_in_interval(pe, pw, qp)
        app == all_primitive_points(ips, pei)
        ewc == effective_weight_changes(pw, first_value_times(app))
        ue  == unified_events(primitive_event_changes(app), ewc)
        cv  == cumulative_values(final_deltas(primitive_state_timeline(ue)))
        agg == aggregated(cv)
    IN  [ taxonomy_true_segments   |-> tts,
          hierarchy                |-> h,
          primitive_weights        |-> pw,
          all_primitive_points     |-> app,
          effective_weight_changes |-> ewc,
          unified_events           |-> ue,
          cumulative_values        |-> cv,
          aggregated               |-> agg,
          result |-> final_result(latest_record_case(agg, qp), range_case(agg, qp)) ]

\* The rows the query returns
composed_record_query(tx, pe, qp) == composed_record_ctes(tx, pe, qp).result

\* ComposedStreamTool.get_record_composed: the rows as a list of records
get_record_composed(tx, pe, stream_id, from_time, to_time, frozen_at) ==
    LET rows == composed_record_query(
                    tx, pe, query_params(stream_id, from_time, to_time, frozen_at))
    IN  [ i \in 1 .. Len(rows) |->
            [event_time |-> rows[i].event_time, value |-> rows[i].value] ]

----------------------------------------------------------------------------
(* Python float.  A float is <<m, e>>, the number m * 2^e, with m odd, or    *)
(* <<0, 0>>; every operation rounds its exact result to MantissaBits         *)
(* significant bits, ties to even (53 bits in the code, fewer here: the      *)
(* integers of TLC have 32 bits).  The model's values are non-negative.     *)

RECURSIVE Canonical(_, _)
Canonical(m, e) ==
    IF m = 0 THEN <<0, 0>>
    ELSE IF m % 2 = 0 THEN Canonical(m \div 2, e + 1)
    ELSE <<m, e>>

RECURSIVE RoundRatio(_, _, _)
\* num / den * 2^e rounded to MantissaBits bits (num >= 0, den > 0)
RoundRatio(num, den, e) ==
    IF num = 0 THEN <<0, 0>>
    ELSE IF num >= den * (2 ^ MantissaBits) THEN RoundRatio(num, den * 2, e + 1)
    ELSE IF num < den * (2 ^ (MantissaBits - 1)) THEN RoundRatio(num * 2, den, e - 1)
    ELSE LET q == num \div den
             r == num % den
             m == IF 2 * r > den \/ (2 * r = den /\ q % 2 = 1) THEN q + 1 ELSE q
         IN  Canonical(m, e)

\* float("<decimal>") of a stored value
float(v) == RoundRatio(v, 1, 0)

FloatMul(x, y) == RoundRatio(x[1] * y[1], 1, x[2] + y[2])

\* x / y for y # 0
FloatDiv(x, y) == RoundRatio(x[1], y[1], x[2] - y[2])

FloatZero == <<0, 0>>

----------------------------------------------------------------------------
(* PrimitiveStreamTool and the SQL it runs.  pe is the table               *)
(* primitive_events, md the table metadata.                                *)

Ok(records) == [status |-> "ok", records |-> records]

Err(msg) == [status |-> "error", error |-> msg]

Row(e) == [event_time |-> e.event_time, value |-> e.value]

\* ORDER BY event_time DESC, created_at DESC LIMIT 1 over a set of rows
LatestRow(rows) ==
    { e \in rows : \A o \in rows :
                      \/ o.event_time < e.event_time
                      \/ (o.event_time = e.event_time /\ o.created_at <= e.created_at) }

\* ORDER BY event_time ASC, created_at DESC LIMIT 1 over a set of rows
EarliestRow(rows) ==
    { e \in rows : \A o \in rows :
                      \/ o.event_time > e.event_time
                      \/ (o.event_time = e.event_time /\ o.created_at <= e.created_at) }

\* STREAM_REF_QUERY / _get_stream_ref: the stream's reference, if it exists
get_stream_ref(stream_id) ==
    { s.stream_ref : s \in { x \in streams : x.stream_ref = stream_id } }

\* PRIMITIVE_STREAM_RECORD_QUERY: anchor_record UNION ALL interval_records
\* (rn = 1), ORDER BY event_time ASC
PRIMITIVE_STREAM_RECORD_QUERY(pe, stream_ref, frozen_at, from, to) ==
    LET mine == { e \in pe : e.stream_ref = stream_ref /\ e.created_at <= frozen_at }
        inter == { e \in mine : e.event_time > from /\ e.event_time <= to }
        interval_records ==
            { e \in inter : \A o \in inter :
                               o.event_time = e.event_time => o.created_at <= e.created_at }
        anchor_record == LatestRow({ e \in mine : e.event_time <= from })
    IN  OrderByEventTime({ Row(e) : e \in anchor_record \cup interval_records })

\* PRIMITIVE_STREAM_LAST_RECORD_QUERY
PRIMITIVE_STREAM_LAST_RECORD_QUERY(pe, stream_ref, before, frozen_at) ==
    LatestRow({ e \in pe : /\ e.stream_ref = stream_ref
                           /\ e.event_time < before
                           /\ e.created_at <= frozen_at })

\* _get_last_record_primitive: the set holding the record, or the empty set
get_last_record_primitive(pe, stream_id, before, frozen_at) ==
    { Row(e) : e \in PRIMITIVE_STREAM_LAST_RECORD_QUERY(
                        pe, stream_id, COALESCE(before, max_int8), frozen_at) }

\* _get_first_record_primitive
get_first_record_primitive(pe, stream_id, frozen_at, after_time) ==
    LET effective_frozen_at == COALESCE(frozen_at, max_int8)
        mine == { e \in pe : /\ e.stream_ref = stream_id
                             /\ e.created_at <= effective_frozen_at }
    IN  { Row(e) : e \in EarliestRow(
             IF after_time # NULL
             THEN { e \in mine : e.event_time > after_time }
             ELSE mine) }

\* _get_record_primitive: Ok(list of records), or the ValueError it raises
get_record_primitive(pe, stream_id, from_time, to_time, frozen_at) ==
    LET effective_from == COALESCE(from_time, 0)
        effective_to == COALESCE(to_time, max_int8)
        effective_frozen_at == COALESCE(frozen_at, max_int8)
        latest_record == get_last_record_primitive(pe, stream_id, NULL, effective_frozen_at)
        rows == PRIMITIVE_STREAM_RECORD_QUERY(
                    pe, stream_id, effective_frozen_at, effective_from, effective_to)
    IN  IF from_time = NULL /\ to_time = NULL
        THEN Ok(OrderByEventTime(latest_record))
        ELSE IF rows = <<>> THEN Err("error when getting record")
        ELSE Ok(rows)

\* A variant of the metadata query without the filter disabled_at IS NULL
default_base_time_any(md, stream_ref) ==
    LET rows == { m \in md : /\ m.stream_ref = stream_ref
                             /\ m.metadata_key = "default_base_time" }
    IN  IF rows = {} THEN NULL
        ELSE (CHOOSE m \in rows : \A o \in rows : o.created_at <= m.created_at).value_i

\* The metadata query of get_index and _get_base_value: the newest
\* non-disabled default_base_time of the stream, or NULL
default_base_time(md, stream_ref) ==
    LET rows == { m \in md : /\ m.stream_ref = stream_ref
                             /\ m.metadata_key = "default_base_time"
                             /\ m.disabled_at = NULL }
    IN  IF rows = {} THEN NULL
        ELSE (CHOOSE m \in rows : \A o \in rows : o.created_at <= m.created_at).value_i

\* _get_base_value: [status |-> "ok", value |-> float], or the ValueError
get_base_value(pe, md, stream_id, base_time, frozen_at) ==
    LET effective_base_time ==
            IF base_time = NULL THEN default_base_time(md, stream_id) ELSE base_time
        first_record == get_first_record_primitive(pe, stream_id, frozen_at, NULL)
        exact_records == get_record_primitive(
                             pe, stream_id, effective_base_time, effective_base_time, frozen_at)
        before_record == get_last_record_primitive(
                             pe, stream_id, effective_base_time, COALESCE(frozen_at, max_int8))
        after_record == get_first_record_primitive(
                             pe, stream_id, frozen_at, effective_base_time)
        found(rec) == [status |-> "ok", value |-> float(rec.value)]
    IN  IF effective_base_time = NULL
        THEN IF first_record # {}
             THEN found(CHOOSE r \in first_record : TRUE)
             ELSE Err("No base value found: no records in stream")
        ELSE IF exact_records.status = "error" THEN exact_records
        ELSE IF exact_records.records # <<>> THEN found(exact_records.records[1])
        ELSE IF before_record # {} THEN found(CHOOSE r \in before_record : TRUE)
        ELSE IF after_record # {} THEN found(CHOOSE r \in after_record : TRUE)
        ELSE Err("No base value found")

\* indexed_value = (float(record["value"]) * 100) / base_value
indexed_value(value, base_value) ==
    FloatDiv(FloatMul(float(value), float(100)), base_value)

\* A variant of the guard that lets every base value through
base_value_is_zero_never(base_value) == FALSE

\* The guard of get_index: if base_value == 0
base_value_is_zero(base_value) == base_value = FloatZero

\* PrimitiveStreamTool.get_index; a float division by 0.0 raises
\* ZeroDivisionError
get_index(pe, md, stream_id, from_time, to_time, frozen_at, base_time) ==
    LET effective_frozen_at == COALESCE(frozen_at, max_int8)
        effective_base_time ==
            IF base_time = NULL THEN default_base_time(md, stream_id) ELSE base_time
        base == get_base_value(pe, md, stream_id, effective_base_time, frozen_at)
        latest_record == get_last_record_primitive(pe, stream_id, NULL, effective_frozen_at)
        records == get_record_primitive(pe, stream_id, from_time, to_time, frozen_at)
        index(recs) ==
            IF recs # <<>> /\ base.value = FloatZero
            THEN Err("float division by zero")
            ELSE Ok([ i \in 1 .. Len(recs) |->
                        [ event_time |-> recs[i].event_time,
                          value |-> indexed_value(recs[i].value, base.value) ] ])
    IN  IF get_stream_ref(stream_id) = {} THEN Err("Stream not found")
        ELSE IF base.status = "error" THEN base
        ELSE IF base_value_is_zero(base.value)
             THEN Err("Base value is 0, cannot calculate index")
        ELSE IF from_time = NULL /\ to_time = NULL
             THEN index(OrderByEventTime(latest_record))
        ELSE IF records.status = "error" THEN records
        ELSE index(records.records)

----------------------------------------------------------------------------
(* The state machine.  Writers append to the store; a request handler reads  *)
(* the store and leaves its response; Return hands the response back.        *)

Idle == [op |-> "idle"]

NoResponse == [status |-> "none"]

Values == {10, 20}

IndexValues == {0, 10, 13}

\* One taxonomy definition of a parent: the children and their weights
TaxonomyMenu ==
    { [parent |-> "C", children |-> {<<"A", 1>>, <<"B", 1>>}],
      [parent |-> "C", children |-> {<<"A", 0>>, <<"B", 1>>}],
      [parent |-> "C", children |-> {<<"B", 1>>}],
      [parent |-> "C", children |-> {<<"A", 0>>, <<"B", 0>>}],
      [parent |-> "C", children |-> {<<"A", 1>>, <<"D", 2>>}],
      [parent |-> "D", children |-> {<<"A", 1>>, <<"B", 1>>}] }

\* A parent's first definition starts at 0, each later one at LaterStart
LaterStart == 2

FromTimes == {NULL} \cup Times

ToTimes == {NULL} \cup Times

FrozenAts == {NULL} \cup (1 .. MaxEvents - 1)

BaseTimes == {NULL} \cup Times

Init ==
    /\ taxonomies = {}
    /\ primitive_events = {}
    /\ metadata = {}
    /\ clock = 1
    /\ request = Idle
    /\ response = NoResponse

\* A writer appends one observation; created_at is the store's clock
InsertRecord(s, t, v) ==
    /\ request = Idle
    /\ Cardinality(primitive_events) < MaxEvents
    /\ primitive_events' = primitive_events \cup
          { [stream_ref |-> s, event_time |-> t, created_at |-> clock, value |-> v] }
    /\ clock' = clock + 1
    /\ UNCHANGED <<taxonomies, metadata, request, response>>

\* A writer defines a new taxonomy version of a parent: one row per child,
\* all with the parent's next group_sequence
InsertTaxonomy(g, start) ==
    LET mine == { t \in taxonomies : t.stream_ref = g.parent }
        gs   == IF mine = {} THEN 1
                ELSE 1 + MaxOf({ t.group_sequence : t \in mine })
    IN  /\ request = Idle
        /\ Cardinality({ <<t.stream_ref, t.group_sequence>> : t \in taxonomies })
              < MaxTaxonomyGroups
        /\ start = (IF mine = {} THEN 0 ELSE LaterStart)
        /\ taxonomies' = taxonomies \cup
              { [ stream_ref |-> g.parent, child_stream_ref |-> c[1],
                  weight |-> c[2], start_time |-> start,
                  group_sequence |-> gs, disabled_at |-> NULL ] : c \in g.children }
        /\ UNCHANGED <<primitive_events, metadata, clock, request, response>>

\* A writer sets a stream's default_base_time
InsertMetadata(s, v) ==
    /\ request = Idle
    /\ Cardinality(metadata) < MaxMetadata
    /\ metadata' = metadata \cup
          { [ stream_ref |-> s, metadata_key |-> "default_base_time",
              value_i |-> v, created_at |-> clock, disabled_at |-> NULL ] }
    /\ clock' = clock + 1
    /\ UNCHANGED <<taxonomies, primitive_events, request, response>>

\* The request handler of get_record_composed
GetRecordComposed(stream_id, from_time, to_time, frozen_at) ==
    /\ request = Idle
    /\ request' = [ op |-> "get_record_composed", stream_id |-> stream_id,
                    from_time |-> from_time, to_time |-> to_time,
                    frozen_at |-> frozen_at, base_time |-> NULL ]
    /\ response' = Ok(get_record_composed(taxonomies, primitive_events,
                                          stream_id, from_time, to_time, frozen_at))
    /\ UNCHANGED <<taxonomies, primitive_events, metadata, clock>>

\* The request handler of the primitive get_index
GetIndex(stream_id, from_time, to_time, frozen_at, base_time) ==
    /\ request = Idle
    /\ request' = [ op |-> "get_index", stream_id |-> stream_id,
                    from_time |-> from_time, to_time |-> to_time,
                    frozen_at |-> frozen_at, base_time |-> base_time ]
    /\ response' = get_index(primitive_events, metadata,
                             stream_id, from_time, to_time, frozen_at, base_time)
    /\ UNCHANGED <<taxonomies, primitive_events, metadata, clock>>

\* The caller takes the response
Return ==
    /\ request # Idle
    /\ request' = Idle
    /\ response' = NoResponse
    /\ UNCHANGED <<taxonomies, primitive_events, metadata, clock>>

\* The engine: composed records over the hierarchy of C, and the index of A
Next ==
    \/ \E s \in Primitives, t \in Times, v \in Values : InsertRecord(s, t, v)
    \/ \E g \in TaxonomyMenu, start \in {0, LaterStart} : InsertTaxonomy(g, start)
    \/ \E f \in FromTimes, t \in ToTimes, z \in FrozenAts :
          GetRecordComposed("C", f, t, z)
    \/ \E f \in {NULL, 1}, t \in {NULL, MaxTime}, z \in FrozenAts, b \in {NULL, 0} :
          GetIndex("A", f, t, z, b)
    \/ Return

Spec == Init /\ [][Next]_vars

\* The index of one primitive stream, over every combination of parameters
NextIndex ==
    \/ \E t \in Times, v \in IndexValues : InsertRecord("A", t, v)
    \/ \E v \in Times : InsertMetadata("A", v)
    \/ \E f \in FromTimes, t \in ToTimes, z \in FrozenAts, b \in BaseTimes :
          GetIndex("A", f, t, z, b)
    \/ Return

SpecIndex == Init /\ [][NextIndex]_vars

----------------------------------------------------------------------------
(* What the claims speak of, defined from the store alone *)

\* The effective observations of stream s under cutoff F: per event_time the
\* row with the largest created_at <= F
EffectiveObservations(pe, s, F) ==
    { e \in pe :
        /\ e.stream_ref = s
        /\ e.created_at <= F
        /\ \A o \in pe :
              (o.stream_ref = s /\ o.event_time = e.event_time /\ o.created_at <= F)
                 => o.created_at <= e.created_at }

\* The latest effective observation of s at or before t (a set of at most one row)
LatestEffectiveAt(pe, s, F, t) ==
    { e \in EffectiveObservations(pe, s, F) :
        /\ e.event_time <= t
        /\ \A o \in EffectiveObservations(pe, s, F) :
              o.event_time <= t => o.event_time <= e.event_time }

IsComposedRequest == request.op = "get_record_composed"

IsIndexRequest == request.op = "get_index"

LatestMode == request.from_time = NULL /\ request.to_time = NULL

RequestParams ==
    query_params(request.stream_id, request.from_time, request.to_time, request.frozen_at)

\* The CTEs of the composed query of the current request
RequestCtes == composed_record_ctes(taxonomies, primitive_events, RequestParams)

\* The weight segments active at t whose primitive has an observation at or before t
ContributingAt(t) ==
    { w \in RequestCtes.primitive_weights :
        /\ w.group_sequence_start <= t
        /\ t <= w.group_sequence_end
        /\ LatestEffectiveAt(primitive_events, w.primitive_stream_ref,
                             RequestParams.effective_frozen_at, t) # {} }

ValueAt(s, t) ==
    (CHOOSE e \in LatestEffectiveAt(primitive_events, s,
                                    RequestParams.effective_frozen_at, t) : TRUE).value

\* sum(weight_p * value_p(t)) / sum(weight_p) over the contributing primitives
WeightedAverageAt(t) ==
    LET c == ContributingAt(t)
    IN  aggregated_value(
            SUM([w \in c |-> w.raw_weight * ValueAt(w.primitive_stream_ref, t)], c),
            SUM([w \in c |-> w.raw_weight], c))

RecordTimes == { response.records[i].event_time : i \in 1 .. Len(response.records) }

\* C1: every record reported by get_record_composed carries the weighted
\* average sum(w_p * value_p(t)) / sum(w_p) of the primitives whose weight
\* segment is active at t and that have an effective observation at or
\* before t, value_p(t) being the latest such observation.
C1_WeightedAverage ==
    IsComposedRequest =>
        \A i \in 1 .. Len(response.records) :
            response.records[i].value = WeightedAverageAt(response.records[i].event_time)

----------------------------------------------------------------------------
(* C2: the end of a child's weight segment *)

\* The weight segments of the request's hierarchy that end inside the time
\* line with no non-zero segment of the same primitive following at once
EndingSegments ==
    { w \in RequestCtes.primitive_weights :
        /\ w.raw_weight # 0
        /\ w.group_sequence_end < max_int8 - 1
        /\ ~\E v \in RequestCtes.primitive_weights :
              /\ v.primitive_stream_ref = w.primitive_stream_ref
              /\ v.raw_weight # 0
              /\ v.group_sequence_start = w.group_sequence_end + 1 }

\* <<sum(weight_p * value_p(t)), sum(weight_p)>> over the segments in c
SumsOver(c, t) ==
    << SUM([w \in c |-> w.raw_weight * ValueAt(w.primitive_stream_ref, t)], c),
       SUM([w \in c |-> w.raw_weight], c) >>

AverageOver(c, t) == aggregated_value(SumsOver(c, t)[1], SumsOver(c, t)[2])

InRange(t) ==
    /\ t >= RequestParams.effective_from
    /\ t <= RequestParams.effective_to

\* C2: when a child's weight segment ends at E, every record before E+1
\* carries the weighted average that includes the child (once it has an
\* observation), every record at or after E+1 carries the average of the
\* remaining segments only, and E+1 itself is reported as a change point
\* when it lies in the requested range and the sums change there.
C2_SegmentEnd ==
    IsComposedRequest =>
        \A w \in EndingSegments :
            LET E == w.group_sequence_end
            IN  /\ \A i \in 1 .. Len(response.records) :
                      LET t == response.records[i].event_time
                      IN  response.records[i].value =
                              IF t <= E
                              THEN AverageOver(ContributingAt(t), t)
                              ELSE AverageOver(ContributingAt(t) \ {w}, t)
                /\ ( /\ ~LatestMode
                     /\ InRange(E + 1)
                     /\ w \in ContributingAt(E)
                     /\ SumsOver(ContributingAt(E + 1) \ {w}, E + 1)
                           # SumsOver(ContributingAt(E), E) )
                   => (E + 1) \in RecordTimes

----------------------------------------------------------------------------
(* C3: the weight-sum law *)

\* Every weight segment of the request's hierarchy has ended before t
AllSegmentsEnded(t) ==
    /\ \E w \in RequestCtes.primitive_weights : w.raw_weight # 0
    /\ \A w \in RequestCtes.primitive_weights :
          w.raw_weight # 0 => w.group_sequence_end < t

\* C3: at every change point at which every contributing primitive's weight
\* segment has ended, cum_sw is 0 and the reported value is 0; the request
\* answers, it does not fail.
C3_WeightSumLaw ==
    IsComposedRequest =>
        /\ response.status = "ok"
        /\ \A r \in RequestCtes.cumulative_values :
              AllSegmentsEnded(r.event_time) => r.cum_sw = 0
        /\ \A i \in 1 .. Len(response.records) :
              AllSegmentsEnded(response.records[i].event_time)
                 => response.records[i].value = 0

\* A record is reported at a time at which every segment has ended, after a
\* primitive has contributed
C3_Witness ==
    /\ IsComposedRequest
    /\ \E i \in 1 .. Len(response.records) :
          /\ AllSegmentsEnded(response.records[i].event_time)
          /\ response.records[i].value = 0
    /\ \E r \in RequestCtes.cumulative_values : r.cum_sw # 0

----------------------------------------------------------------------------
(* C4, C5, C6: which change points a request reports.  The aggregated       *)
(* change points of a request are the rows of its aggregated series.        *)

ChangePoints == RequestCtes.aggregated

ChangePointTimes == { r.event_time : r \in ChangePoints }

\* The change point with the greatest event_time among rows (at most one row)
LatestChangePoint(rows) ==
    { r \in rows : \A o \in rows : o.event_time <= r.event_time }

\* C4: a range query [a, b] with no aggregated change point at a and at least
\* one strictly before a reports a record at event_time = a carrying the
\* value of the latest change point strictly before a.
C4_AnchorRecord ==
    (IsComposedRequest /\ ~LatestMode) =>
        LET a      == RequestParams.effective_from
            before == { r \in ChangePoints : r.event_time < a }
        IN  (/\ a <= RequestParams.effective_to
             /\ before # {}
             /\ a \notin ChangePointTimes)
            => \E i \in 1 .. Len(response.records) :
                  /\ response.records[i].event_time = a
                  /\ \A r \in LatestChangePoint(before) :
                        response.records[i].value = r.value

\* C5: in latest mode get_record_composed and the primitive get_index return
\* at most one record; when the series has a point, the record is the one
\* with the greatest event_time among the aggregated change points (for a
\* primitive: among the effective observations) visible under frozen_at.
C5_LatestMode ==
    /\ (IsComposedRequest /\ LatestMode) =>
          /\ Len(response.records) <= 1
          /\ ChangePoints # {} =>
                /\ Len(response.records) = 1
                /\ \A r \in LatestChangePoint(ChangePoints) :
                      response.records[1] =
                          [event_time |-> r.event_time, value |-> r.value]
    /\ (IsIndexRequest /\ LatestMode /\ response.status = "ok") =>
          LET obs == EffectiveObservations(primitive_events, request.stream_id,
                                           COALESCE(request.frozen_at, max_int8))
          IN  /\ Len(response.records) <= 1
              /\ obs # {} =>
                    /\ Len(response.records) = 1
                    /\ response.records[1].event_time
                          = MaxOf({ e.event_time : e \in obs })

\* A latest-mode request over a series of two change points is answered with
\* the later one
C5_Witness ==
    /\ IsComposedRequest
    /\ LatestMode
    /\ Cardinality(ChangePointTimes) >= 2
    /\ Len(response.records) = 1
    /\ response.records[1].event_time = MaxOf(ChangePointTimes)

\* C6: in range mode every aggregated change point inside
\* [effective_from, effective_to] is reported, every reported event_time is
\* such a change point or effective_from itself, and nothing is reported
\* outside the range or after the last change point.
C6_RangeMode ==
    (IsComposedRequest /\ ~LatestMode) =>
        /\ \A t \in ChangePointTimes : InRange(t) => t \in RecordTimes
        /\ \A t \in RecordTimes :
              /\ InRange(t)
              /\ t \in ChangePointTimes \/ t = RequestParams.effective_from
              /\ \E c \in ChangePointTimes : t <= c

\* A range request whose series has a change point inside the range and one
\* outside of it
C6_Witness ==
    /\ IsComposedRequest
    /\ ~LatestMode
    /\ RecordTimes # {}
    /\ \E t \in ChangePointTimes : ~InRange(t)

----------------------------------------------------------------------------
(* C7: the frozen_at cutoff *)

\* The store reduced to the rows that are effective under cutoff F
EffectiveStore(F) ==
    { e \in primitive_events :
        e \in EffectiveObservations(primitive_events, e.stream_ref, F) }

\* C7: per (primitive stream, event_time) only the row with the largest
\* created_at <= frozen_at enters the computation: the response is the one
\* the same request gets from the store without the rows created after the
\* cutoff and without the rows superseded under it.
C7_FrozenAt ==
    LET F == COALESCE(request.frozen_at, max_int8)
    IN  /\ IsComposedRequest =>
              response = Ok(get_record_composed(taxonomies, EffectiveStore(F),
                                request.stream_id, request.from_time,
                                request.to_time, request.frozen_at))
        /\ IsIndexRequest =>
              response = get_index(EffectiveStore(F), metadata,
                                request.stream_id, request.from_time,
                                request.to_time, request.frozen_at,
                                request.base_time)

\* A correction is recorded after the cutoff of the request, and the request
\* reports the value from before the correction
C7_Witness ==
    /\ IsComposedRequest
    /\ request.frozen_at # NULL
    /\ \E e \in primitive_events, c \in primitive_events :
          /\ e.stream_ref = c.stream_ref
          /\ e.event_time = c.event_time
          /\ e.created_at <= request.frozen_at
          /\ c.created_at > request.frozen_at
          /\ c.value # e.value
          /\ \E i \in 1 .. Len(response.records) :
                /\ response.records[i].event_time = e.event_time
                /\ response.records[i].value = e.value * Scale

----------------------------------------------------------------------------
(* C8, C9, C10: the base value of the primitive index *)

\* The base time the request resolves: the argument, else the stream's
\* default_base_time, else NULL
RequestBaseTime ==
    IF request.base_time = NULL
    THEN default_base_time(metadata, request.stream_id)
    ELSE request.base_time

\* The base value the request resolves, or the error of the resolution
RequestBase ==
    get_base_value(primitive_events, metadata, request.stream_id,
                   RequestBaseTime, request.frozen_at)

\* The effective observations the request can see
RequestObservations ==
    EffectiveObservations(primitive_events, request.stream_id,
                          COALESCE(request.frozen_at, max_int8))

\* C8: when the stream has an effective observation with a non-zero value at
\* base_time, get_index with that base_time reports the index value 100 in
\* the record at event_time = base_time, whenever that record is reported.
C8_IndexAtBaseTime ==
    (IsIndexRequest /\ request.base_time # NULL /\ response.status = "ok") =>
        \A e \in RequestObservations :
            (e.event_time = request.base_time /\ e.value # 0) =>
                \A i \in 1 .. Len(response.records) :
                    response.records[i].event_time = request.base_time
                        => response.records[i].value = float(100)

\* C9: whenever the resolved base value is 0, get_index fails with the
\* invalid-base-value error and returns no records, in latest mode as well
\* as in range mode.
C9_ZeroBaseValue ==
    (IsIndexRequest /\ RequestBase.status = "ok" /\ RequestBase.value = FloatZero)
        => response = Err("Base value is 0, cannot calculate index")

\* A range request whose base value resolves to 0 while the range holds a
\* non-zero observation
C9_Witness ==
    /\ IsIndexRequest
    /\ ~LatestMode
    /\ RequestBase.status = "ok"
    /\ RequestBase.value = FloatZero
    /\ response.status = "error"
    /\ \E e \in RequestObservations : e.value # 0

\* The base observation of base time B by the order exact, latest before,
\* earliest after (a set of at most one observation)
BaseObservation(obs, B) ==
    LET exact  == { e \in obs : e.event_time = B }
        before == { e \in obs : e.event_time < B }
        after  == { e \in obs : e.event_time > B }
    IN  IF exact # {} THEN exact
        ELSE IF before # {}
             THEN { e \in before : \A o \in before : o.event_time <= e.event_time }
        ELSE { e \in after : \A o \in after : e.event_time <= o.event_time }

\* C10: with a resolved base time B the base value is the effective
\* observation at B, else the latest one before B, else the earliest one
\* after B; the resolution fails with 'no base value found' only when the
\* stream has no effective observation; in particular the call does not
\* fail when every observation is later than B.
C10_BaseResolution ==
    (IsIndexRequest /\ RequestBaseTime # NULL) =>
        /\ \A e \in BaseObservation(RequestObservations, RequestBaseTime) :
              /\ RequestBase = [status |-> "ok", value |-> float(e.value)]
              /\ (LatestMode /\ e.value # 0) => response.status = "ok"
        /\ (RequestBase.status = "error" /\ RequestBase.error = "No base value found")
              => RequestObservations = {}

----------------------------------------------------------------------------
(* C11: the choice of the base.  The index of one primitive stream whose     *)
(* default_base_time is set, set again and disabled.                         *)

MaxBaseEntries == 2

\* A writer records a default_base_time of a stream, or a disabled one
SetDefaultBaseTime(s, v, disabled) ==
    /\ request = Idle
    /\ Cardinality(metadata) < MaxBaseEntries
    /\ metadata' = metadata \cup
          { [ stream_ref |-> s, metadata_key |-> "default_base_time",
              value_i |-> v, created_at |-> clock,
              disabled_at |-> IF disabled THEN clock ELSE NULL ] }
    /\ clock' = clock + 1
    /\ UNCHANGED <<taxonomies, primitive_events, request, response>>

NextBase ==
    \/ \E t \in Times, v \in Values : InsertRecord("A", t, v)
    \/ \E v \in Times, d \in BOOLEAN : SetDefaultBaseTime("A", v, d)
    \/ \E f \in {NULL, 0}, z \in {NULL, 1}, b \in BaseTimes :
          GetIndex("A", f, NULL, z, b)
    \/ Return

SpecBase == Init /\ [][NextBase]_vars

\* The newest non-disabled default_base_time entry of the request's stream
\* (a set of at most one row)
NewestDefaultBaseTime ==
    LET rows == { m \in metadata : /\ m.stream_ref = request.stream_id
                                   /\ m.metadata_key = "default_base_time"
                                   /\ m.disabled_at = NULL }
    IN  { m \in rows : \A o \in rows : o.created_at <= m.created_at }

\* The first-ever effective observation the request can see
FirstObservation ==
    { e \in RequestObservations :
        \A o \in RequestObservations : e.event_time <= o.event_time }

\* The response to the request of this state, had it been given base_time b
\* and a stream without metadata
ResponseWithBaseTime(b) ==
    get_index(primitive_events, {}, request.stream_id, request.from_time,
              request.to_time, request.frozen_at, b)

\* C11: get_index takes the base from the base_time parameter if given,
\* otherwise from the newest non-disabled default_base_time entry of the
\* stream, otherwise from the stream's first-ever effective observation; the
\* metadata is not used when base_time is given, and the first observation
\* is not used when one of the other two is there.
C11_BasePriority ==
    IsIndexRequest =>
        /\ request.base_time # NULL =>
              response = ResponseWithBaseTime(request.base_time)
        /\ request.base_time = NULL =>
              \A m \in NewestDefaultBaseTime :
                  response = ResponseWithBaseTime(m.value_i)
        /\ (request.base_time = NULL /\ NewestDefaultBaseTime = {}) =>
              \A e \in FirstObservation :
                  RequestBase = [status |-> "ok", value |-> float(e.value)]

\* No base_time is given, the newest entry is disabled and an older one is
\* not, and the base it names differs from the first observation
C11_Witness ==
    /\ IsIndexRequest
    /\ request.base_time = NULL
    /\ response.status = "ok"
    /\ \E m \in NewestDefaultBaseTime :
          \E d \in metadata : d.disabled_at # NULL /\ d.created_at > m.created_at
    /\ \E e \in FirstObservation :
          /\ RequestBase.status = "ok"
          /\ RequestBase.value # float(e.value)

----------------------------------------------------------------------------
(* COMPOSED_STREAM_INDEX_QUERY (query.py), one operator per CTE, named as in  *)
(* the query with the prefix index_ where the record query has a CTE of the  *)
(* same name and another text.  parent_distinct_start_times,                 *)
(* parent_next_starts and taxonomy_true_segments have the text of the record *)
(* query and are shared.  Effective weights and indexed values are           *)
(* NUMERIC(36,18) with a fractional part: fixed-point integers in units of   *)
(* 10^-ScaleDigits.                                                          *)

index_hierarchy_max_level == 10

\* The product of two fixed-point numbers, cast to NUMERIC(36,18)
numeric_mul(a, b) ==
    Sgn(a) * Sgn(b) * ((2 * Abs(a) * Abs(b) + Scale) \div (2 * Scale))

\* query_vars
query_vars(stream_id, from_param, to_param, frozen_at_param, base_time_param) ==
    [ stream_id           |-> stream_id,
      from_param          |-> from_param,
      to_param            |-> to_param,
      frozen_at_param     |-> frozen_at_param,
      base_time_param     |-> base_time_param,
      effective_from      |-> COALESCE(from_param, 0),
      effective_to        |-> COALESCE(to_param, max_int8),
      effective_frozen_at |-> COALESCE(frozen_at_param, max_int8) ]

\* base_time_calc: base_time_param, else the value_i of the newest
\* non-disabled default_base_time row of the stream, else 0
base_time_calc(md, qv) ==
    LET rows == { x \in md : /\ x.stream_ref = qv.stream_id
                             /\ \E s \in streams : s.stream_ref = x.stream_ref
                             /\ x.metadata_key = "default_base_time"
                             /\ x.disabled_at = NULL }
        newest == { x \in rows : \A o \in rows : o.created_at <= x.created_at }
    IN  IF qv.base_time_param # NULL THEN qv.base_time_param
        ELSE IF newest = {} THEN 0
        ELSE (CHOOSE x \in newest : TRUE).value_i

\* stream_ref_calc: the row of query_vars with effective_base_time and the
\* stream's id, NULL for a stream that is not in the catalog
stream_ref_calc(md, qv) ==
    [ stream_ref          |-> IF \E s \in streams : s.stream_ref = qv.stream_id
                              THEN qv.stream_id ELSE NULL,
      effective_base_time |-> base_time_calc(md, qv),
      from_param          |-> qv.from_param,
      to_param            |-> qv.to_param,
      effective_from      |-> qv.effective_from,
      effective_to        |-> qv.effective_to,
      effective_frozen_at |-> qv.effective_frozen_at ]

\* The scalar subquery on t_anchor_base, COALESCEd to 0
index_anchor_start(tx, src) ==
    LET starts == { t.start_time :
                      t \in { x \in tx : /\ x.stream_ref = src.stream_ref
                                         /\ x.disabled_at = NULL
                                         /\ x.start_time <= src.effective_from } }
    IN  IF starts = {} THEN 0 ELSE MaxOf(starts)

\* hierarchy, base case: both weights are the weight of the segment
index_hierarchy_base(tx, tts, src) ==
    { [ descendant_stream_ref |-> t.child_stream_ref,
        raw_weight            |-> t.weight_for_segment,
        effective_weight      |-> t.weight_for_segment * Scale,
        path_start            |-> t.segment_start,
        path_end              |-> t.segment_end,
        level                 |-> 1,
        path                  |-> <<t.stream_ref, t.child_stream_ref>> ] :
        t \in { x \in tts :
                  /\ x.stream_ref = src.stream_ref
                  /\ x.segment_end >= index_anchor_start(tx, src)
                  /\ x.segment_start <= src.effective_to } }

\* SUM(sibling_tts.weight_for_segment): the weights of the segment's siblings
sibling_weight_sum(tts, h, t) ==
    LET siblings == { s \in tts : /\ s.stream_ref = h.descendant_stream_ref
                                  /\ s.segment_start = t.segment_start
                                  /\ s.segment_end = t.segment_end }
    IN  SUM([s \in siblings |-> s.weight_for_segment], siblings)

\* h.effective_weight * (weight_for_segment / NULLIF(SUM(...), 0)); weights
\* are not negative, so NULL is none of them
effective_weight(tts, h, t) ==
    IF h.effective_weight = NULL \/ sibling_weight_sum(tts, h, t) = 0
    THEN NULL
    ELSE numeric_mul(h.effective_weight,
                     numeric_div(t.weight_for_segment, sibling_weight_sum(tts, h, t)))

\* hierarchy, recursive step applied to the rows of the previous iteration
index_hierarchy_step(tx, tts, src, rows) ==
    LET joined == { j \in rows \X tts :
                      /\ j[1].descendant_stream_ref = j[2].stream_ref
                      /\ GREATEST(j[1].path_start, j[2].segment_start)
                            <= LEAST(j[1].path_end, j[2].segment_end)
                      /\ LEAST(j[1].path_end, j[2].segment_end)
                            >= index_anchor_start(tx, src)
                      /\ GREATEST(j[1].path_start, j[2].segment_start)
                            <= src.effective_to
                      /\ j[1].level < index_hierarchy_max_level }
    IN  { [ descendant_stream_ref |-> j[2].child_stream_ref,
            raw_weight            |-> j[1].raw_weight * j[2].weight_for_segment,
            effective_weight      |-> effective_weight(tts, j[1], j[2]),
            path_start            |-> GREATEST(j[1].path_start, j[2].segment_start),
            path_end              |-> LEAST(j[1].path_end, j[2].segment_end),
            level                 |-> j[1].level + 1,
            path                  |-> Append(j[1].path, j[2].child_stream_ref) ] :
            j \in joined }

RECURSIVE index_hierarchy_from(_, _, _, _)
index_hierarchy_from(tx, tts, src, rows) ==
    IF rows = {} THEN {}
    ELSE rows \cup index_hierarchy_from(tx, tts, src,
                                        index_hierarchy_step(tx, tts, src, rows))

index_hierarchy(tx, tts, src) ==
    index_hierarchy_from(tx, tts, src, index_hierarchy_base(tx, tts, src))

\* hierarchy_primitive_paths and primitive_weights: h.effective_weight AS
\* raw_weight
index_primitive_weights(h) ==
    { [ primitive_stream_ref |-> r.descendant_stream_ref,
        raw_weight           |-> r.effective_weight,
        group_sequence_start |-> r.path_start,
        group_sequence_end   |-> r.path_end,
        path                 |-> r.path ] :
        r \in { x \in h : \E s \in streams :
                              /\ s.stream_ref = x.descendant_stream_ref
                              /\ s.stream_type = "primitive" } }

\* cleaned_event_times: the times in (effective_from, effective_to] of the
\* visible events inside a weight segment and of the segment starts, and the
\* latest such time at or before effective_from
cleaned_event_times(pe, pw, src) ==
    LET joined == { e \in pe :
                      /\ \E w \in pw :
                            /\ w.primitive_stream_ref = e.stream_ref
                            /\ e.event_time >= w.group_sequence_start
                            /\ e.event_time <= w.group_sequence_end
                      /\ e.created_at <= src.effective_frozen_at }
        all_times_in_range ==
            { e.event_time :
                e \in { x \in joined : /\ x.event_time > src.effective_from
                                       /\ x.event_time <= src.effective_to } }
            \cup
            { w.group_sequence_start :
                w \in { x \in pw : /\ x.group_sequence_start > src.effective_from
                                   /\ x.group_sequence_start <= src.effective_to } }
        all_times_before ==
            { e.event_time :
                e \in { x \in joined : x.event_time <= src.effective_from } }
            \cup
            { w.group_sequence_start :
                w \in { x \in pw : x.group_sequence_start <= src.effective_from } }
        anchor_event == IF all_times_before = {} THEN {}
                        ELSE {MaxOf(all_times_before)}
    IN  all_times_in_range \cup anchor_event

distinct_primitives_for_base(app) == { p.stream_ref : p \in app }

\* primitive_base_values: per contributing stream, the value of the visible
\* event at effective_base_time, else of the latest one before it, else of
\* the earliest one after it, else 1; of the events of one time the one with
\* the greatest created_at
primitive_base_values(pe, dp, src) ==
    LET visible(s) == { e \in pe : /\ e.stream_ref = s
                                   /\ e.created_at <= src.effective_frozen_at }
        newest(S) == CHOOSE e \in S :
                        \A o \in S : o.event_time = e.event_time =>
                                        o.created_at <= e.created_at
        exact(s)  == { e \in visible(s) : e.event_time = src.effective_base_time }
        before(s) == { e \in visible(s) : e.event_time < src.effective_base_time }
        after(s)  == { e \in visible(s) : e.event_time > src.effective_base_time }
        latest(S)   == { e \in S : \A o \in S : o.event_time <= e.event_time }
        earliest(S) == { e \in S : \A o \in S : o.event_time >= e.event_time }
    IN  { [ stream_ref |-> s,
            base_value |->
                IF exact(s) # {} THEN newest(exact(s)).value
                ELSE IF before(s) # {} THEN newest(latest(before(s))).value
                ELSE IF after(s) # {} THEN newest(earliest(after(s))).value
                ELSE 1 ] : s \in dp }

\* CASE WHEN COALESCE(pbv.base_value, 0) = 0 THEN 0
\*      ELSE (calc.delta_value * 100 / pbv.base_value)::numeric(36,18) END
delta_indexed_value(delta_value, base_value) ==
    IF base_value = 0 THEN 0
    ELSE numeric_div(delta_value * 100, base_value)

\* primitive_event_changes of the index query: the deltas of the record
\* query joined to the base value of their stream
index_primitive_event_changes(app, pbv) ==
    { [ stream_ref          |-> c.stream_ref,
        event_time          |-> c.event_time,
        value               |-> c.value,
        delta_value         |-> c.delta_value,
        delta_indexed_value |->
            delta_indexed_value(
                c.delta_value,
                (CHOOSE b \in pbv : b.stream_ref = c.stream_ref).base_value) ] :
        c \in primitive_event_changes(app) }

\* effective_weight_changes of the index query: a NULL weight fails the test
\* raw_weight != 0 as a zero weight does
index_effective_weight_changes(pw, fvt) ==
    effective_weight_changes({ w \in pw : w.raw_weight # NULL }, fvt)

\* unified_events of the index query
index_unified_events(pec, ewc) ==
    { [ stream_ref |-> c.stream_ref, event_time |-> c.event_time,
        delta_indexed_value |-> c.delta_indexed_value, weight_delta |-> 0,
        event_type_priority |-> 1, src |-> <<>> ] : c \in pec }
    \cup
    { [ stream_ref |-> c.stream_ref, event_time |-> c.event_time,
        delta_indexed_value |-> 0, weight_delta |-> c.weight_delta,
        event_type_priority |-> 2, src |-> c.src ] : c \in ewc }

\* primitive_state_timeline of the index query (frames and LAG as in the
\* record query)
index_primitive_state_timeline(ue) ==
    LET part(s) == { r \in ue : r.stream_ref = s }
        frame(r) == { o \in part(r.stream_ref) : OrderKeyLeq(o, r) }
        indexed_value_after_event(r) ==
            SUM([o \in frame(r) |-> o.delta_indexed_value], frame(r))
        weight_after_event(r) == SUM([o \in frame(r) |-> o.weight_delta], frame(r))
        rowsof(s) ==
            LET state_calc == SortByOrderKey(part(s))
            IN  { [ stream_ref          |-> s,
                    event_time          |-> state_calc[i].event_time,
                    delta_indexed_value |-> state_calc[i].delta_indexed_value,
                    weight_delta        |-> state_calc[i].weight_delta,
                    indexed_value_before_event |->
                        IF i = 1 THEN 0
                        ELSE indexed_value_after_event(state_calc[i - 1]),
                    weight_before_event |->
                        IF i = 1 THEN 0 ELSE weight_after_event(state_calc[i - 1]),
                    row |-> i ] : i \in 1 .. Len(state_calc) }
    IN  UNION { rowsof(s) : s \in { r.stream_ref : r \in ue } }

\* The summand of final_deltas: a product of two fixed-point numbers, exact
index_delta_ws_term(r) ==
    (r.delta_indexed_value * r.weight_before_event)
    + (r.indexed_value_before_event * r.weight_delta)
    + (r.delta_indexed_value * r.weight_delta)

\* The cast ::numeric(72,18) of an exact sum of products
numeric_cast(x) == Sgn(x) * ((2 * Abs(x) + Scale) \div (2 * Scale))

\* final_deltas of the index query
index_final_deltas(pst) ==
    LET grp(t) == { r \in pst : r.event_time = t }
        sums == { [ event_time |-> t,
                    delta_ws_indexed |->
                        numeric_cast(SUM([r \in grp(t) |-> index_delta_ws_term(r)],
                                         grp(t))),
                    delta_sw |-> SUM([r \in grp(t) |-> r.weight_delta], grp(t)) ] :
                    t \in { r.event_time : r \in pst } }
    IN  { d \in sums : d.delta_ws_indexed # 0 \/ d.delta_sw # 0 }

all_combined_times(fd, cet) == { d.event_time : d \in fd } \cup cet

\* cumulative_values of the index query: one row per time of
\* all_combined_times, the running totals of the final_deltas joined to the
\* times up to it, 0 where there is none
index_cumulative_values(act, fd) ==
    LET upto(t) == { d \in fd : d.event_time <= t }
    IN  { [ event_time     |-> t,
            cum_ws_indexed |-> SUM([o \in upto(t) |-> o.delta_ws_indexed], upto(t)),
            cum_sw         |-> SUM([o \in upto(t) |-> o.delta_sw], upto(t)) ] :
            t \in act }

index_aggregated(cv) ==
    { [ event_time |-> c.event_time,
        value      |-> aggregated_value(c.cum_ws_indexed, c.cum_sw) ] : c \in cv }

real_change_times(fd, pei) ==
    { d.event_time : d \in fd } \cup { e.event_time : e \in pei }

\* anchor_time_calc: MAX(time_point) below effective_from, or NULL
anchor_time_calc(rct, src) ==
    LET below == { t \in rct : t < src.effective_from }
    IN  IF below = {} THEN NULL ELSE MaxOf(below)

final_mapping(agg, rct) ==
    { [ event_time     |-> a.event_time,
        value          |-> a.value,
        effective_time |->
            LET upto == { t \in rct : t <= a.event_time }
            IN  IF upto = {} THEN NULL ELSE MaxOf(upto),
        query_time_had_real_change |-> a.event_time \in rct ] : a \in agg }

\* filtered_mapping and locf_applied
locf_applied(fm, atc, src) ==
    { [ event_time       |-> f.event_time,
        value            |-> f.value,
        anchor_time      |-> atc,
        final_event_time |-> IF f.query_time_had_real_change
                             THEN f.event_time ELSE f.effective_time ] :
        f \in { x \in fm :
                  \/ /\ x.event_time >= src.effective_from
                     /\ x.event_time <= src.effective_to
                  \/ (atc # NULL /\ x.event_time = atc) } }

direct_hits(la, src) ==
    { [event_time |-> l.final_event_time, value |-> l.value] :
        l \in { x \in la : /\ x.event_time >= src.effective_from
                           /\ x.event_time <= src.effective_to
                           /\ x.final_event_time # NULL } }

\* A variant of anchor_hit without the NOT EXISTS condition
anchor_hit_unconditional(la, src) ==
    { [event_time |-> l.final_event_time, value |-> l.value] :
        l \in { x \in la : /\ x.anchor_time # NULL
                           /\ x.event_time = x.anchor_time
                           /\ src.effective_from > x.anchor_time
                           /\ x.final_event_time # NULL } }

anchor_hit(la, src) ==
    { [event_time |-> l.final_event_time, value |-> l.value] :
        l \in { x \in la : /\ x.anchor_time # NULL
                           /\ x.event_time = x.anchor_time
                           /\ src.effective_from > x.anchor_time
                           /\ x.final_event_time # NULL
                           /\ ~ \E dh \in la : dh.event_time = src.effective_from } }

RECURSIVE OrderDistinctByEventTime(_)
\* SELECT DISTINCT event_time, value ... ORDER BY event_time ASC.  Rows of one
\* event_time would come in an order the database chooses; they are carried
\* forward from one change point and have one value, so DISTINCT leaves one.
OrderDistinctByEventTime(rows) ==
    IF rows = {} THEN <<>>
    ELSE LET first == CHOOSE r \in rows :
                         \A o \in rows : \/ r.event_time < o.event_time
                                         \/ /\ r.event_time = o.event_time
                                            /\ r.value <= o.value
         IN  <<first>> \o OrderDistinctByEventTime(rows \ {first})

\* The WITH clause of the index query
composed_index_ctes(tx, pe, md, qv) ==
    LET src == stream_ref_calc(md, qv)
        pns == parent_next_starts(parent_distinct_start_times(tx))
        tts == taxonomy_true_segments(tx, pns)
        h   == index_hierarchy(tx, tts, src)
        pw  == index_primitive_weights(h)
        ips == initial_primitive_states(pe, pw, src)
        pei == primitive_events_in_interval(pe, pw, src)
        app == all_primitive_points(ips, pei)
        pbv == primitive_base_values(pe, distinct_primitives_for_base(app), src)
        pec == index_primitive_event_changes(app, pbv)
        ewc == index_effective_weight_changes(pw, first_value_times(app))
        fd  == index_final_deltas(
                   index_primitive_state_timeline(index_unified_events(pec, ewc)))
        act == all_combined_times(fd, cleaned_event_times(pe, pw, src))
        agg == index_aggregated(index_cumulative_values(act, fd))
        rct == real_change_times(fd, pei)
        la  == locf_applied(final_mapping(agg, rct), anchor_time_calc(rct, src), src)
    IN  [ stream_ref_calc       |-> src,
          hierarchy             |-> h,
          primitive_weights     |-> pw,
          all_primitive_points  |-> app,
          primitive_base_values |-> pbv,
          final_deltas          |-> fd,
          aggregated            |-> agg,
          result |-> OrderDistinctByEventTime(direct_hits(la, src)
                                              \cup anchor_hit(la, src)) ]

\* The rows the query returns
composed_index_query(tx, pe, md, qv) == composed_index_ctes(tx, pe, md, qv).result

\* ComposedStreamTool.get_index: runs the index query with its parameters and
\* returns the rows as a list of records, as get_record_composed does
composed_get_index(tx, pe, md, stream_id, from_time, to_time, frozen_at, base_time) ==
    LET rows == composed_index_query(
                    tx, pe, md,
                    query_vars(stream_id, from_time, to_time, frozen_at, base_time))
    IN  Ok([ i \in 1 .. Len(rows) |->
               [event_time |-> rows[i].event_time, value |-> rows[i].value] ])

----------------------------------------------------------------------------
(* C12: the composed index over observations that may be 0 *)

\* The request handler of the composed get_index
GetComposedIndex(stream_id, from_time, to_time, frozen_at, base_time) ==
    /\ request = Idle
    /\ request' = [ op |-> "get_composed_index", stream_id |-> stream_id,
                    from_time |-> from_time, to_time |-> to_time,
                    frozen_at |-> frozen_at, base_time |-> base_time ]
    /\ response' = composed_get_index(taxonomies, primitive_events, metadata,
                                      stream_id, from_time, to_time, frozen_at,
                                      base_time)
    /\ UNCHANGED <<taxonomies, primitive_events, metadata, clock>>

ComposedIndexMenu ==
    { g \in TaxonomyMenu :
        g.children \in { {<<"A", 1>>, <<"B", 1>>}, {<<"A", 1>>, <<"D", 2>>} } }

NextComposedIndex ==
    \/ \E s \in Primitives, t \in Times, v \in IndexValues : InsertRecord(s, t, v)
    \/ \E g \in ComposedIndexMenu, start \in {0, LaterStart} : InsertTaxonomy(g, start)
    \/ \E f \in {NULL, 1}, t \in {NULL, MaxTime}, z \in {NULL, 1}, b \in BaseTimes :
          GetComposedIndex("C", f, t, z, b)
    \/ Return

SpecComposedIndex == Init /\ [][NextComposedIndex]_vars

IsComposedIndexRequest == request.op = "get_composed_index"

\* The CTEs of the index query of the current request
RequestIndexCtes ==
    composed_index_ctes(taxonomies, primitive_events, metadata,
                        query_vars(request.stream_id, request.from_time,
                                   request.to_time, request.frozen_at,
                                   request.base_time))

\* C12: a composed index request in which the base value of a contributing
\* primitive resolves to 0 fails (InvalidBaseValue); the primitive's indexed
\* values are not replaced by 0 and aggregated into a returned result.
C12_ZeroBaseFails ==
    IsComposedIndexRequest =>
        ((\E b \in RequestIndexCtes.primitive_base_values : b.base_value = 0)
            => response.status = "error")

----------------------------------------------------------------------------
(* GeneralStreamTool (general.py): the period-change calculator.  A series   *)
(* is a list of records [event_time, value].  A Decimal is <<c, e>>, the     *)
(* number c * 10^e with the digits of c and the exponent e that Python       *)
(* keeps; a record's value is given as the Decimal that Decimal(str(value))  *)
(* makes of it.  The context has DecimalPrec significant digits (36 in the   *)
(* code) and rounds half to even; sums and products of the model's values    *)
(* stay below that and are exact.                                            *)

DecimalPrec == 4

\* Decimal(str(n)) of an int n
DecimalOfInt(n) == <<n, 0>>

\* x - y
DecimalSub(x, y) ==
    LET e == LEAST(x[2], y[2])
    IN  <<x[1] * 10 ^ (x[2] - e) - y[1] * 10 ^ (y[2] - e), e>>

\* x * Decimal('100')
DecimalTimes100(x) == <<x[1] * 100, x[2]>>

RECURSIVE DecimalReduce(_, _, _)
\* n / d for a quotient of more than DecimalPrec digits: rounded at the
\* exponent k > 0 that leaves DecimalPrec digits
DecimalReduce(n, d, k) ==
    LET q == n \div (d * 10 ^ k)
        r == n % (d * 10 ^ k)
        up == (2 * r > d * 10 ^ k) \/ (2 * r = d * 10 ^ k /\ q % 2 = 1)
        rounded == IF up THEN q + 1 ELSE q
    IN  IF q >= 10 ^ DecimalPrec THEN DecimalReduce(n, d, k + 1)
        ELSE IF rounded = 10 ^ DecimalPrec THEN <<10 ^ (DecimalPrec - 1), k + 1>>
        ELSE <<rounded, k>>

RECURSIVE DecimalQuotient(_, _, _)
\* n * 10^k / d for n, d > 0: the exact quotient at the exponent nearest to 0
\* when it has at most DecimalPrec digits, else the quotient rounded to
\* DecimalPrec digits
DecimalQuotient(n, d, k) ==
    LET q == n \div d
        r == n % d
        up == (2 * r > d) \/ (2 * r = d /\ q % 2 = 1)
        rounded == IF up THEN q + 1 ELSE q
    IN  IF q >= 10 ^ DecimalPrec THEN DecimalReduce(n, d, 1)
        ELSE IF r = 0 THEN <<q, 0 - k>>
        ELSE IF q >= 10 ^ (DecimalPrec - 1)
             THEN IF rounded = 10 ^ DecimalPrec
                  THEN <<10 ^ (DecimalPrec - 1), 1 - k>>
                  ELSE <<rounded, 0 - k>>
        ELSE DecimalQuotient(n * 10, d, k + 1)

\* x / y, y # 0: the quotient of the coefficients at the ideal exponent
\* x[2] - y[2]
DecimalDiv(x, y) ==
    IF x[1] = 0 THEN <<0, x[2] - y[2]>>
    ELSE LET q == DecimalQuotient(Abs(x[1]), Abs(y[1]), 0)
         IN  <<Sgn(x[1]) * Sgn(y[1]) * q[1], q[2] + x[2] - y[2]>>

\* ((current_value - prev_value) * Decimal('100')) / prev_value
change_percent(current_value, prev_value) ==
    DecimalDiv(DecimalTimes100(DecimalSub(current_value, prev_value)), prev_value)

\* A variant of sorted that leaves the list as it is given
sorted_as_given(data) == data

RECURSIVE sorted(_)
\* sorted(data, key=lambda x: int(x["event_time"])): a stable sort
sorted(data) ==
    IF data = <<>> THEN <<>>
    ELSE LET i == CHOOSE k \in 1 .. Len(data) :
                     /\ \A o \in 1 .. Len(data) :
                           data[k].event_time <= data[o].event_time
                     /\ \A o \in 1 .. k - 1 :
                           data[o].event_time # data[k].event_time
         IN  <<data[i]>> \o sorted(SubSeq(data, 1, i - 1)
                                   \o SubSeq(data, i + 1, Len(data)))

\* A variant of advance that moves the pointer by at most one record
advance_one_step(prev_sorted, j, target_time) ==
    IF j + 1 < Len(prev_sorted) /\ prev_sorted[j + 2].event_time <= target_time
    THEN j + 1
    ELSE j

RECURSIVE advance(_, _, _)
\* while j + 1 < len(prev_sorted) and prev_sorted[j + 1].event_time <= target:
\*     j += 1                       (j counts from 0 as in the code)
advance(prev_sorted, j, target_time) ==
    IF j + 1 < Len(prev_sorted) /\ prev_sorted[j + 2].event_time <= target_time
    THEN advance(prev_sorted, j + 1, target_time)
    ELSE j

RECURSIVE scan(_, _, _, _, _, _)
\* The for loop over current_sorted from its i-th record on, with the pointer
\* j and the list changes as the loop has left them
scan(current_sorted, prev_sorted, time_interval, i, j, changes) ==
    IF i > Len(current_sorted) THEN changes
    ELSE LET current_time  == current_sorted[i].event_time
             current_value == current_sorted[i].value
             target_time   == current_time - time_interval
             j2            == advance(prev_sorted, j, target_time)
             found == /\ j2 < Len(prev_sorted)
                      /\ prev_sorted[j2 + 1].event_time <= target_time
                      /\ prev_sorted[j2 + 1].value[1] # 0
         IN  scan(current_sorted, prev_sorted, time_interval, i + 1, j2,
                  IF found
                  THEN Append(changes,
                              [ event_time |-> current_time,
                                value |-> change_percent(current_value,
                                                         prev_sorted[j2 + 1].value) ])
                  ELSE changes)

\* GeneralStreamTool._calculate_index_changes
calculate_index_changes(current_data, prev_data, time_interval) ==
    scan(sorted(current_data), sorted(prev_data), time_interval, 1, 0, <<>>)

\* GeneralStreamTool.get_index_change
get_index_change(current_data, prev_data, time_interval) ==
    IF current_data = <<>> THEN <<>>
    ELSE IF prev_data = <<>> THEN <<>>
    ELSE calculate_index_changes(current_data, prev_data, time_interval)

----------------------------------------------------------------------------
(* C13, C14: get_index_change applied to every pair of short series *)

MaxSeriesLen == 3

PrevValues == {0, 10}

\* The lists of at most MaxSeriesLen records, in any order of event_time
Series(V) ==
    UNION { [1 .. n -> [event_time : Times, value : { DecimalOfInt(v) : v \in V }]] :
              n \in 0 .. MaxSeriesLen }

\* The calls of GeneralStreamTool.get_index_change: one initial state each
InitChange ==
    /\ taxonomies = {}
    /\ primitive_events = {}
    /\ metadata = {}
    /\ clock = 1
    /\ request \in [ op : {"get_index_change"}, current_data : Series(Values),
                     prev_data : Series(PrevValues), time_interval : Times ]
    /\ response = NoResponse

\* The call is answered
GetIndexChange ==
    /\ request # Idle
    /\ response = NoResponse
    /\ response' = Ok(get_index_change(request.current_data, request.prev_data,
                                       request.time_interval))
    /\ UNCHANGED <<taxonomies, primitive_events, metadata, clock, request>>

NextChange ==
    \/ GetIndexChange
    \/ Return

SpecChange == InitChange /\ [][NextChange]_vars

IsChangeRequest == request.op = "get_index_change" /\ response # NoResponse

\* The earliest event_time of prev_data
EarliestPrev ==
    MinOf({ request.prev_data[i].event_time : i \in 1 .. Len(request.prev_data) })

\* C13: the list get_index_change returns is non-decreasing in event_time,
\* whatever the order of the inputs, and has no entry for a current point at
\* time t when t - time_interval is earlier than the earliest event_time of
\* prev_data.
C13_SortedNoEarly ==
    IsChangeRequest =>
        /\ \A i, k \in 1 .. Len(response.records) :
              i <= k => response.records[i].event_time <= response.records[k].event_time
        /\ request.prev_data = <<>> => response.records = <<>>
        /\ request.prev_data # <<>> =>
              \A i \in 1 .. Len(response.records) :
                  response.records[i].event_time - request.time_interval
                     >= EarliestPrev

\* Both inputs come in descending order, two entries are returned and a
\* current point is left out because its shifted time is too early
C13_Witness ==
    /\ IsChangeRequest
    /\ Len(request.current_data) = 3
    /\ Len(request.prev_data) >= 2
    /\ \A i \in 1 .. 2 :
          request.current_data[i].event_time > request.current_data[i + 1].event_time
    /\ request.prev_data[1].event_time > request.prev_data[2].event_time
    /\ Len(response.records) = 2
    /\ \E i \in 1 .. 3 :
          request.current_data[i].event_time - request.time_interval < EarliestPrev

\* The reference definition.  The previous points a current point at time t
\* may be matched to: those with time <= t - time_interval
MatchCandidates(prev_data, t, time_interval) ==
    { k \in 1 .. Len(prev_data) : prev_data[k].event_time <= t - time_interval }

\* The latest of them; of several with that time the last one listed
LatestMatch(prev_data, t, time_interval) ==
    LET cand == MatchCandidates(prev_data, t, time_interval)
    IN  CHOOSE k \in cand :
           \A o \in cand :
              \/ prev_data[o].event_time < prev_data[k].event_time
              \/ (prev_data[o].event_time = prev_data[k].event_time /\ o <= k)

\* Whether the reference emits an entry for the current point (t, c)
Emitted(prev_data, t, time_interval) ==
    /\ MatchCandidates(prev_data, t, time_interval) # {}
    /\ prev_data[LatestMatch(prev_data, t, time_interval)].value[1] # 0

RECURSIVE ReferenceChanges(_, _, _)
\* One entry per emitted point of a current series listed by time, each point
\* matched on its own
ReferenceChanges(current, prev_data, time_interval) ==
    IF current = <<>> THEN <<>>
    ELSE LET t == Head(current).event_time
             rest == ReferenceChanges(Tail(current), prev_data, time_interval)
         IN  IF Emitted(prev_data, t, time_interval)
             THEN <<[ event_time |-> t,
                      value |->
                        change_percent(
                          Head(current).value,
                          prev_data[LatestMatch(prev_data, t, time_interval)].value) ]>>
                  \o rest
             ELSE rest

\* The current series listed by time, points of one time as they were given
RECURSIVE ListedByTime(_, _)
ListedByTime(data, t) ==
    IF t > MaxTime THEN <<>>
    ELSE SelectSeq(data, LAMBDA r : r.event_time = t) \o ListedByTime(data, t + 1)

\* C14: the forward-only scan returns what the reference definition gives:
\* an entry for a current point (t, c) iff prev_data has a point with time
\* <= t - time_interval and the value p of the latest such point is not 0,
\* the entry being (t, (c - p) * 100 / p); a skipped point raises no error and
\* changes no later match.
C14_TwoPointerIsReference ==
    IsChangeRequest =>
        /\ response.status = "ok"
        /\ response.records =
              ReferenceChanges(ListedByTime(request.current_data, 0),
                               request.prev_data, request.time_interval)

\* A current point is skipped for want of a match, the next one because the
\* matched value is 0, and the last one is matched to the third previous point
C14_Witness ==
    /\ IsChangeRequest
    /\ Len(request.current_data) = 3
    /\ Len(request.prev_data) = 3
    /\ Len(response.records) = 1
    /\ response.records[1].value[1] # 0
    /\ \E i, k, l \in 1 .. 3 :
          LET t(n) == request.current_data[n].event_time
          IN  /\ t(i) < t(k) /\ t(k) < t(l)
              /\ MatchCandidates(request.prev_data, t(i), request.time_interval) = {}
              /\ MatchCandidates(request.prev_data, t(k), request.time_interval) # {}
              /\ ~ Emitted(request.prev_data, t(k), request.time_interval)
              /\ Emitted(request.prev_data, t(l), request.time_interval)

----------------------------------------------------------------------------
(* C15: the records of the primitive get_index in range mode *)

\* C15: in range mode [from_time, to_time] the primitive get_index reports
\* the carried-forward anchor observation at event_time = from_time, so every
\* record it returns has from_time <= event_time <= to_time (and so has every
\* entry the get_index_change tool derives from them).
C15_RecordsInRange ==
    (IsIndexRequest /\ request.from_time # NULL /\ response.status = "ok") =>
        \A i \in 1 .. Len(response.records) :
            /\ response.records[i].event_time >= request.from_time
            /\ response.records[i].event_time
                  <= COALESCE(request.to_time, max_int8)

----------------------------------------------------------------------------
(* The MCP tools of server.py.  A Python str is a sequence of characters.    *)
(* The catalog of the model keeps one stream_ref per stream; StreamKey gives *)
(* the columns data_provider and stream_id of its row.  A tool's response    *)
(* lists in `reads` the statements it has run on the store.                  *)

RECURSIVE Repeat(_, _)
\* c * n
Repeat(c, n) == IF n = 0 THEN <<>> ELSE <<c>> \o Repeat(c, n - 1)

\* s.startswith(prefix)
startswith(s, prefix) ==
    Len(s) >= Len(prefix) /\ SubSeq(s, 1, Len(prefix)) = prefix

\* s.lower() and SQL LOWER(s), over the letters the model uses
lower(s) ==
    [ i \in 1 .. Len(s) |->
        CASE s[i] = "A" -> "a"
          [] s[i] = "B" -> "b"
          [] s[i] = "X" -> "x"
          [] OTHER -> s[i] ]

HexCharacters ==
    { "0", "1", "2", "3", "4", "5", "6", "7", "8", "9",
      "a", "b", "c", "d", "e", "f", "A", "B", "C", "D", "E", "F" }

\* The columns data_provider and stream_id of the catalog row of a stream
StreamKey(stream_ref) ==
    [ data_provider |-> <<"0", "x">> \o Repeat("a", 40),
      stream_id     |-> <<"s", "t">> \o Repeat("0", 29) \o <<stream_ref>> ]

NoStream == "none"

\* WHERE LOWER(s.data_provider) = LOWER($1) AND s.stream_id = $2: the
\* stream_ref of the row, NoStream when there is no row
find_stream(data_provider, stream_id) ==
    LET rows == { s \in streams :
                    /\ lower(StreamKey(s.stream_ref).data_provider)
                          = lower(data_provider)
                    /\ StreamKey(s.stream_ref).stream_id = stream_id }
    IN  IF rows = {} THEN NoStream ELSE (CHOOSE s \in rows : TRUE).stream_ref

ToolOk(records, reads) == [status |-> "ok", records |-> records, reads |-> reads]

\* format_error_response
ToolErr(msg, reads) == [status |-> "error", error |-> msg, reads |-> reads]

\* Decimal(str(x)) of a float x: str gives the shortest decimal that reads
\* back as x, with ".0" for an integer; a fraction of the model is written
\* out in full
DecimalOfFloat(x) ==
    IF x[2] >= 0 THEN <<x[1] * (2 ^ x[2]) * 10, 0 - 1>>
    ELSE <<x[1] * (5 ^ (0 - x[2])), x[2]>>

\* Decimal(str(v)) of a NUMERIC(36,18) v
DecimalOfNumeric(v) == <<v, 0 - ScaleDigits>>

\* if not data_provider.startswith('0x') or len(data_provider) != 42
invalid_data_provider(data_provider) ==
    ~ startswith(data_provider, <<"0", "x">>) \/ Len(data_provider) # 42

\* if not stream_id.startswith('st') or len(stream_id) != 32
invalid_stream_id(stream_id) ==
    ~ startswith(stream_id, <<"s", "t">>) \/ Len(stream_id) # 32

\* A variant of invalid_time_range that lets every range through
invalid_time_range_never(from_time, to_time) == FALSE

\* if from_time is not None and to_time is not None and from_time > to_time
\* (get_index_change: if from_time > to_time, both being given)
invalid_time_range(from_time, to_time) ==
    from_time # NULL /\ to_time # NULL /\ from_time > to_time

\* if time_interval <= 0
invalid_time_interval(time_interval) == time_interval <= 0

\* The tool get_composed_stream_records
get_composed_stream_records(tx, pe, data_provider, stream_id, from_time, to_time, frozen_at) ==
    IF invalid_data_provider(data_provider)
    THEN ToolErr("data_provider must be 0x followed by 40 hex characters", <<>>)
    ELSE IF invalid_stream_id(stream_id)
    THEN ToolErr("stream_id must start with 'st' and be 32 characters total", <<>>)
    ELSE IF invalid_time_range(from_time, to_time)
    THEN ToolErr("Invalid time range", <<>>)
    ELSE ToolOk(get_record_composed(tx, pe, find_stream(data_provider, stream_id),
                                    from_time, to_time, frozen_at),
                <<"composed_record_query">>)

\* The index records of a tool as the series GeneralStreamTool reads
SeriesOfFloats(records) ==
    [ i \in 1 .. Len(records) |->
        [ event_time |-> records[i].event_time,
          value |-> DecimalOfFloat(records[i].value) ] ]

SeriesOfNumerics(records) ==
    [ i \in 1 .. Len(records) |->
        [ event_time |-> records[i].event_time,
          value |-> DecimalOfNumeric(records[i].value) ] ]

\* get_index_change, composed branch, from the results of its two calls of
\* ComposedStreamTool.get_index to the response
index_change_composed(current_data, prev_data, time_interval) ==
    ToolOk(get_index_change(SeriesOfNumerics(current_data.records),
                            SeriesOfNumerics(prev_data.records), time_interval),
           <<"streams", "composed_index_query", "composed_index_query">>)

\* get_index_change, primitive branch, from the results of its two calls of
\* PrimitiveStreamTool.get_index to the response; an exception of a call
\* becomes an error response
index_change_primitive(current_data, prev_data, time_interval) ==
    IF current_data.status = "error"
    THEN ToolErr(current_data.error, <<"streams", "get_index">>)
    ELSE IF prev_data.status = "error"
    THEN ToolErr(prev_data.error, <<"streams", "get_index", "get_index">>)
    ELSE ToolOk(get_index_change(SeriesOfFloats(current_data.records),
                                 SeriesOfFloats(prev_data.records), time_interval),
                <<"streams", "get_index", "get_index">>)

\* The tool get_index_change.  Each branch makes its two calls once and
\* names their results c and p.
tool_get_index_change(tx, pe, md, data_provider, stream_id, from_time, to_time, time_interval, frozen_at, base_time) ==
    LET stream_ref == find_stream(data_provider, stream_id)
        stream_type == (CHOOSE s \in streams : s.stream_ref = stream_ref).stream_type
        earliest_prev == from_time - time_interval
        latest_prev == to_time - time_interval
    IN  IF invalid_time_range(from_time, to_time)
        THEN ToolErr("Invalid time range", <<>>)
        ELSE IF invalid_time_interval(time_interval)
        THEN ToolErr("time_interval must be > 0", <<>>)
        ELSE IF stream_ref = NoStream
        THEN ToolErr("Stream not found", <<"streams">>)
        ELSE IF stream_type = "composed"
        THEN CHOOSE r \in
                 { index_change_composed(c, p, time_interval) :
                     c \in { composed_get_index(tx, pe, md, stream_ref, from_time,
                                                 to_time, frozen_at, base_time) },
                     p \in { composed_get_index(tx, pe, md, stream_ref, earliest_prev,
                                                 latest_prev, frozen_at, base_time) } } :
                 TRUE
        ELSE CHOOSE r \in
                 { index_change_primitive(c, p, time_interval) :
                     c \in { get_index(pe, md, stream_ref, from_time, to_time,
                                        frozen_at, base_time) },
                     p \in { get_index(pe, md, stream_ref, earliest_prev, latest_prev,
                                        frozen_at, base_time) } } :
                 TRUE

----------------------------------------------------------------------------
(* C16, C17, C18: tool calls with well-formed and ill-formed parameters *)

\* The request handler of the tool get_composed_stream_records
ToolGetComposedStreamRecords(data_provider, stream_id, from_time, to_time, frozen_at) ==
    /\ request = Idle
    /\ request' = [ op |-> "tool_get_composed_stream_records",
                    data_provider |-> data_provider, stream_id |-> stream_id,
                    from_time |-> from_time, to_time |-> to_time,
                    frozen_at |-> frozen_at ]
    /\ response' = get_composed_stream_records(taxonomies, primitive_events,
                                               data_provider, stream_id,
                                               from_time, to_time, frozen_at)
    /\ UNCHANGED <<taxonomies, primitive_events, metadata, clock>>

\* The request handler of the tool get_index_change
ToolGetIndexChange(data_provider, stream_id, from_time, to_time, time_interval, frozen_at, base_time) ==
    /\ request = Idle
    /\ request' = [ op |-> "tool_get_index_change",
                    data_provider |-> data_provider, stream_id |-> stream_id,
                    from_time |-> from_time, to_time |-> to_time,
                    time_interval |-> time_interval,
                    frozen_at |-> frozen_at, base_time |-> base_time ]
    /\ response' = tool_get_index_change(taxonomies, primitive_events, metadata,
                                         data_provider, stream_id, from_time,
                                         to_time, time_interval, frozen_at,
                                         base_time)
    /\ UNCHANGED <<taxonomies, primitive_events, metadata, clock>>

\* Addresses of the right form: the catalog's, the same in capitals, one of
\* another deployer
WellFormedProviders ==
    { <<"0", "x">> \o Repeat("a", 40),
      <<"0", "x">> \o Repeat("A", 40),
      <<"0", "x">> \o Repeat("b", 40) }

\* Addresses: the well-formed ones, one with letters that are no hex digits,
\* one too short, one without 0x
DataProviders ==
    WellFormedProviders \cup
    { <<"0", "x">> \o Repeat("g", 40),
      <<"0", "x">> \o Repeat("a", 39),
      Repeat("a", 42) }

\* Stream ids of the right form: of C and A, one of no stream
WellFormedStreamIds ==
    { StreamKey("C").stream_id,
      StreamKey("A").stream_id,
      <<"s", "t">> \o Repeat("9", 30) }

\* Stream ids: the well-formed ones, one too short, one without st
StreamIds ==
    WellFormedStreamIds \cup
    { <<"s", "t">> \o Repeat("0", 29),
      <<"x", "x">> \o Repeat("0", 29) \o <<"C">> }

ServerMenu == { g \in TaxonomyMenu : g.children = {<<"A", 1>>, <<"B", 1>>} }

NextServer ==
    \/ \E t \in Times, v \in Values : InsertRecord("A", t, v)
    \/ \E g \in ServerMenu : InsertTaxonomy(g, 0)
    \/ \E p \in DataProviders, s \in StreamIds,
          f \in {NULL, MaxTime}, t \in {NULL, 1} :
          ToolGetComposedStreamRecords(p, s, f, t, NULL)
    \/ \E p \in WellFormedProviders, s \in WellFormedStreamIds,
          f \in {1, MaxTime}, t \in {1, MaxTime}, d \in (0 - 1) .. 1 :
          ToolGetIndexChange(p, s, f, t, d, NULL, NULL)
    \/ \E s \in {"C", NoStream} : GetRecordComposed(s, NULL, NULL, NULL)
    \/ \E s \in {"A", NoStream} : GetIndex(s, NULL, NULL, NULL, NULL)
    \/ Return

SpecServer == Init /\ [][NextServer]_vars

IsRecordsTool == request.op = "tool_get_composed_stream_records"

IsChangeTool == request.op = "tool_get_index_change"

\* C16: get_index_change called with from_time > to_time or with
\* time_interval <= 0, and get_composed_stream_records called with both
\* bounds given and from_time > to_time, return an error response, read
\* nothing from the store and return no records.
C16_InvalidRangeRejected ==
    /\ (IsChangeTool /\ (request.from_time > request.to_time
                         \/ request.time_interval <= 0))
          => (response.status = "error" /\ response.reads = <<>>)
    /\ (IsRecordsTool /\ request.from_time # NULL /\ request.to_time # NULL
                      /\ request.from_time > request.to_time)
          => (response.status = "error" /\ response.reads = <<>>)

\* A well-formed call for stream C with from_time > to_time, over a store in
\* which C has records
C16_Witness ==
    /\ IsRecordsTool
    /\ request.from_time # NULL /\ request.to_time # NULL
    /\ request.from_time > request.to_time
    /\ ~ invalid_data_provider(request.data_provider)
    /\ ~ invalid_stream_id(request.stream_id)
    /\ get_record_composed(taxonomies, primitive_events, "C", NULL, NULL, NULL) # <<>>
    /\ response.status = "error"

\* '0x' followed by exactly 40 hexadecimal characters
IsHexAddress(s) ==
    /\ Len(s) = 42
    /\ s[1] = "0" /\ s[2] = "x"
    /\ \A i \in 3 .. 42 : s[i] \in HexCharacters

\* Exactly 32 characters starting with 'st'
IsStreamId(s) == Len(s) = 32 /\ s[1] = "s" /\ s[2] = "t"

\* C17: get_composed_stream_records rejects, with an error response and
\* without a store read, every data_provider that is not '0x' followed by
\* exactly 40 hexadecimal characters and every stream_id that is not exactly
\* 32 characters starting with 'st'; every accepted data_provider is '0x'
\* plus 40 hex characters.
C17_AddressFormat ==
    IsRecordsTool =>
        /\ (~ IsHexAddress(request.data_provider) \/ ~ IsStreamId(request.stream_id))
              => (response.status = "error" /\ response.reads = <<>>)
        /\ response.status = "ok" => IsHexAddress(request.data_provider)

\* The stream the request names is not in the catalog
UnknownStream ==
    \/ (IsRecordsTool \/ IsChangeTool)
          /\ find_stream(request.data_provider, request.stream_id) = NoStream
    \/ (IsComposedRequest \/ IsIndexRequest)
          /\ request.stream_id \notin StreamRefs

\* C18: get_record_composed and get_composed_stream_records, the primitive
\* get_index and the get_index_change tool, called with a (provider, id) pair
\* that is not in the stream catalog, surface a stream-not-found error; none
\* returns a successful, empty result.
C18_StreamNotFound ==
    UnknownStream => response.status = "error"

----------------------------------------------------------------------------
(* C19, C20: taxonomies with cycles *)

\* Definitions in which a stream is its own child, directly or through D
CycleMenu ==
    { [parent |-> "C", children |-> {<<"C", 1>>, <<"A", 1>>}],
      [parent |-> "C", children |-> {<<"D", 1>>, <<"B", 1>>}],
      [parent |-> "D", children |-> {<<"C", 1>>, <<"A", 1>>}],
      [parent |-> "C", children |-> {<<"A", 1>>, <<"B", 1>>}] }

NextCycle ==
    \/ \E s \in Primitives, t \in Times, v \in Values : InsertRecord(s, t, v)
    \/ \E g \in CycleMenu, start \in {0, LaterStart} : InsertTaxonomy(g, start)
    \/ \E f \in {NULL, 1}, t \in {NULL, MaxTime} : GetRecordComposed("C", f, t, NULL)
    \/ \E f \in {NULL, 1}, t \in {NULL, MaxTime} :
          GetComposedIndex("C", f, t, NULL, NULL)
    \/ Return

SpecCycle == Init /\ [][NextCycle]_vars

\* The hierarchy of the current request and its depth bound
RequestHierarchy ==
    IF IsComposedRequest THEN RequestCtes.hierarchy ELSE RequestIndexCtes.hierarchy

RequestDepthBound ==
    IF IsComposedRequest THEN hierarchy_max_level ELSE index_hierarchy_max_level

\* The segments of the taxonomy as both queries compute them
RequestSegments ==
    taxonomy_true_segments(
        taxonomies, parent_next_starts(parent_distinct_start_times(taxonomies)))

\* The expansion has reached the depth bound: a row of the last level has a
\* child segment that intersects its own
DepthBoundReached ==
    \E r \in RequestHierarchy :
        /\ r.level = RequestDepthBound
        /\ \E t \in RequestSegments :
              /\ t.stream_ref = r.descendant_stream_ref
              /\ GREATEST(r.path_start, t.segment_start)
                    <= LEAST(r.path_end, t.segment_end)

\* C19: a request whose taxonomy expansion reaches the depth bound fails
\* (CycleDepthExceeded); it returns no record list computed from the
\* truncated expansion.
C19_CycleDepthExceeded ==
    ((IsComposedRequest \/ IsComposedIndexRequest) /\ DepthBoundReached)
        => response.status = "error"

\* C20: the expansion terminates for every taxonomy, cyclic ones included:
\* no hierarchy row has a level above the depth bound, a row of level n is
\* the end of a path of n edges, and no row has an empty segment (a path is
\* not expanded through an empty intersection).
C20_ExpansionBounded ==
    (IsComposedRequest \/ IsComposedIndexRequest) =>
        /\ IsFiniteSet(RequestHierarchy)
        /\ \A r \in RequestHierarchy :
              /\ r.level <= RequestDepthBound
              /\ Len(r.path) = r.level + 1
              /\ r.path_start <= r.path_end

\* C is its own child, the record query has expanded the cycle to the depth
\* bound inside the segment of C's first definition, and no row of that
\* segment has been expanded through C's later definition
C20_Witness ==
    /\ IsComposedRequest
    /\ DepthBoundReached
    /\ \E t \in RequestSegments : t.segment_end = LaterStart - 1
    /\ \E r \in RequestHierarchy :
          /\ r.level = hierarchy_max_level
          /\ r.descendant_stream_ref = "C"
          /\ r.path_end = LaterStart - 1
    /\ \E r \in RequestHierarchy : r.path_start = LaterStart
    /\ response.status = "ok"

----------------------------------------------------------------------------
(* Repeated execution of get_record_composed.  The window functions of      *)
(* primitive_state_timeline sort each partition by (event_time,             *)
(* event_type_priority); rows with equal keys may come in any order, and    *)
(* each execution may meet another one.                                     *)

RECURSIVE window_orders(_)
\* Every order the sort of one partition may produce
window_orders(rows) ==
    IF rows = {} THEN { <<>> }
    ELSE UNION { { <<first>> \o rest : rest \in window_orders(rows \ {first}) } :
                   first \in { r \in rows : \A o \in rows : OrderKeyLeq(r, o) } }

\* primitive_state_timeline under one order of each partition: order[s] is the
\* sort of the rows of stream s
primitive_state_timeline_in(ue, order) ==
    LET part(s) == { r \in ue : r.stream_ref = s }
        frame(r) == { o \in part(r.stream_ref) : OrderKeyLeq(o, r) }
        value_after_event(r) == SUM([o \in frame(r) |-> o.delta_value], frame(r))
        weight_after_event(r) == SUM([o \in frame(r) |-> o.weight_delta], frame(r))
        rowsof(s) ==
            { [ stream_ref   |-> s,
                event_time   |-> order[s][i].event_time,
                delta_value  |-> order[s][i].delta_value,
                weight_delta |-> order[s][i].weight_delta,
                value_before_event |->
                    IF i = 1 THEN 0 ELSE value_after_event(order[s][i - 1]),
                weight_before_event |->
                    IF i = 1 THEN 0 ELSE weight_after_event(order[s][i - 1]),
                row |-> i ] : i \in 1 .. Len(order[s]) }
    IN  UNION { rowsof(s) : s \in DOMAIN order }

\* Every primitive_state_timeline the database may compute from unified_events
primitive_state_timelines(ue) ==
    LET refs == { r.stream_ref : r \in ue }
        orders == { f \in [refs -> UNION { window_orders({ r \in ue : r.stream_ref = s }) : s \in refs }] :
                      \A s \in refs : f[s] \in window_orders({ r \in ue : r.stream_ref = s }) }
    IN  { primitive_state_timeline_in(ue, f) : f \in orders }

\* query_params with its column use_cache: COALESCE($6, false)
query_params_use_cache(stream_id, from_time, to_time, frozen_at, use_cache) ==
    [ use_cache |-> use_cache ] @@ query_params(stream_id, from_time, to_time, frozen_at)

\* The CTEs after primitive_state_timeline, up to the rows returned
rows_of_timeline(pst, qp) ==
    LET agg == aggregated(cumulative_values(final_deltas(pst)))
    IN  final_result(latest_record_case(agg, qp), range_case(agg, qp))

\* Every list of rows one execution of the query may return
composed_record_results(tx, pe, qp) ==
    { rows_of_timeline(pst, qp) :
        pst \in primitive_state_timelines(composed_record_ctes(tx, pe, qp).unified_events) }

\* ComposedStreamTool.get_record_composed with its parameter use_cache: every
\* list of records one call may return
get_record_composed_results(tx, pe, stream_id, from_time, to_time, frozen_at, use_cache) ==
    { [ i \in 1 .. Len(rows) |-> [event_time |-> rows[i].event_time, value |-> rows[i].value] ] :
        rows \in composed_record_results(
                    tx, pe, query_params_use_cache(stream_id, from_time, to_time, frozen_at, use_cache)) }

\* One execution of get_record_composed, under any order of equal sort keys
ExecuteRecordComposed(stream_id, from_time, to_time, frozen_at, use_cache) ==
    /\ request = Idle
    /\ request' = [ op |-> "execute_record_composed", stream_id |-> stream_id,
                    from_time |-> from_time, to_time |-> to_time,
                    frozen_at |-> frozen_at, use_cache |-> <<use_cache>> ]
    /\ \E records \in get_record_composed_results(
                          taxonomies, primitive_events, stream_id, from_time,
                          to_time, frozen_at, use_cache) :
          response' = [status |-> "ok", records |-> records, repeated |-> <<>>]
    /\ UNCHANGED <<taxonomies, primitive_events, metadata, clock>>

\* The caller repeats the request before taking the response: the same
\* (stream_id, from_time, to_time, frozen_at) against the same store
RepeatRecordComposed(use_cache) ==
    /\ request # Idle
    /\ request.op = "execute_record_composed"
    /\ Len(request.use_cache) = 1
    /\ request' = [request EXCEPT !.use_cache = Append(@, use_cache)]
    /\ \E records \in get_record_composed_results(
                          taxonomies, primitive_events, request.stream_id,
                          request.from_time, request.to_time, request.frozen_at,
                          use_cache) :
          response' = [response EXCEPT !.repeated = <<records>>]
    /\ UNCHANGED <<taxonomies, primitive_events, metadata, clock>>

\* Hierarchies in which a primitive has several weight changes at one time:
\* A is reached over two paths, and one definition of C follows another
RepeatMenu ==
    { g \in TaxonomyMenu : g.children \in { {<<"A", 1>>, <<"D", 2>>},
                                            {<<"A", 1>>, <<"B", 1>>} } }

NextRepeat ==
    \/ \E s \in Primitives, t \in Times, v \in Values : InsertRecord(s, t, v)
    \/ \E g \in RepeatMenu, start \in {0, LaterStart} : InsertTaxonomy(g, start)
    \/ \E f \in FromTimes, t \in ToTimes, u \in BOOLEAN :
          ExecuteRecordComposed("C", f, t, NULL, u)
    \/ \E u \in BOOLEAN : RepeatRecordComposed(u)
    \/ Return

SpecRepeat == Init /\ [][NextRepeat]_vars

IsRepeated == request.op = "execute_record_composed" /\ Len(request.use_cache) = 2

\* The timelines the database may compute for the current request
RequestTimelines == primitive_state_timelines(RequestCtes.unified_events)

\* C21: two executions of get_record_composed with the same stream, from_time,
\* to_time and frozen_at against the same store return the same list of
\* records, whatever order each execution gives to rows with equal sort keys
\* and whatever use_cache each one is given.
C21_RepeatIsIdentical ==
    IsRepeated => response.repeated = <<response.records>>

\* A repeated request with records, the other use_cache, and a store that
\* leaves the database more than one order
C21_Witness ==
    /\ IsRepeated
    /\ request.use_cache[1] # request.use_cache[2]
    /\ response.records # <<>>
    /\ Cardinality(RequestTimelines) > 1

----------------------------------------------------------------------------
(* One call read by read.  PrimitiveStreamTool.get_index and the tool        *)
(* get_index_change await one query after the other; between two of them    *)
(* another process may append to the store.  The position of the call and   *)
(* its local variables are kept in `request`; request.stores collects the   *)
(* states the store goes through while the call runs.                       *)

\* The store as a query finds it
StoreNow(pe, md) == [pe |-> pe, md |-> md]

\* The range of the get_index call in progress: the tool's second call reads
\* [from_time - time_interval, to_time - time_interval]
call_from_time(req) ==
    IF req.phase = "prev" THEN req.from_time - req.time_interval ELSE req.from_time

call_to_time(req) ==
    IF req.phase = "prev" THEN req.to_time - req.time_interval ELSE req.to_time

\* get_index after the base value is known: the read of the records and the
\* division of each by base_value
read_index_records(pe, stream_id, from_time, to_time, frozen_at, base_value) ==
    LET latest_record == get_last_record_primitive(
                             pe, stream_id, NULL, COALESCE(frozen_at, max_int8))
        records == get_record_primitive(pe, stream_id, from_time, to_time, frozen_at)
        index(recs) ==
            IF recs # <<>> /\ base_value = FloatZero
            THEN Err("float division by zero")
            ELSE Ok([ i \in 1 .. Len(recs) |->
                        [ event_time |-> recs[i].event_time,
                          value |-> indexed_value(recs[i].value, base_value) ] ])
    IN  IF from_time = NULL /\ to_time = NULL
        THEN index(OrderByEventTime(latest_record))
        ELSE IF records.status = "error" THEN records
        ELSE index(records.records)

\* What follows the end of one get_index call: the response of a plain call;
\* in the tool, the second call after the first, and the changes after the
\* second.  An exception of a call ends the tool with an error response.
after_get_index(req, result) ==
    IF req.op = "get_index_steps"
    THEN [ request |-> [req EXCEPT !.pc = "done"], response |-> result ]
    ELSE IF req.phase = "current" /\ result.status = "ok"
    THEN [ request |-> [req EXCEPT !.phase = "prev", !.pc = "metadata",
                                   !.current = result,
                                   !.effective_base_time = NULL,
                                   !.base_value = FloatZero],
           response |-> NoResponse ]
    ELSE IF req.phase = "current"
    THEN [ request |-> [req EXCEPT !.pc = "done"],
           response |-> index_change_primitive(result, result, req.time_interval) ]
    ELSE [ request |-> [req EXCEPT !.pc = "done"],
           response |-> index_change_primitive(req.current, result, req.time_interval) ]

\* What follows the base value: the guard against 0, then the read of the records
after_base_value(req, base) ==
    IF base.status = "error" THEN after_get_index(req, base)
    ELSE IF base_value_is_zero(base.value)
    THEN after_get_index(req, Err("Base value is 0, cannot calculate index"))
    ELSE [ request |-> [req EXCEPT !.pc = "records", !.base_value = base.value],
           response |-> NoResponse ]

\* A call of PrimitiveStreamTool.get_index begins: _get_stream_ref
StartGetIndex(stream_id, from_time, to_time, frozen_at, base_time) ==
    LET req == [ op |-> "get_index_steps", stream_id |-> stream_id,
                 stream_ref |-> stream_id,
                 from_time |-> from_time, to_time |-> to_time,
                 frozen_at |-> frozen_at, base_time |-> base_time,
                 time_interval |-> NULL, phase |-> "only", pc |-> "metadata",
                 effective_base_time |-> NULL, base_value |-> FloatZero,
                 current |-> NoResponse,
                 stores |-> { StoreNow(primitive_events, metadata) } ]
    IN  /\ request = Idle
        /\ IF get_stream_ref(stream_id) = {}
           THEN /\ request' = [req EXCEPT !.pc = "done"]
                /\ response' = Err("Stream not found")
           ELSE /\ request' = req
                /\ response' = NoResponse
        /\ UNCHANGED <<taxonomies, primitive_events, metadata, clock>>

\* A call of the tool get_index_change on a primitive stream begins: the
\* checks of the parameters and the lookup of the stream
StartToolGetIndexChange(data_provider, stream_id, from_time, to_time, time_interval, frozen_at, base_time) ==
    LET stream_ref == find_stream(data_provider, stream_id)
        req == [ op |-> "tool_get_index_change_steps", stream_id |-> stream_id,
                 data_provider |-> data_provider, stream_ref |-> stream_ref,
                 from_time |-> from_time, to_time |-> to_time,
                 frozen_at |-> frozen_at, base_time |-> base_time,
                 time_interval |-> time_interval, phase |-> "current",
                 pc |-> "metadata",
                 effective_base_time |-> NULL, base_value |-> FloatZero,
                 current |-> NoResponse,
                 stores |-> { StoreNow(primitive_events, metadata) } ]
        done == [req EXCEPT !.pc = "done"]
    IN  /\ request = Idle
        /\ \A s \in streams : s.stream_ref = stream_ref => s.stream_type = "primitive"
        /\ IF invalid_time_range(from_time, to_time)
           THEN request' = done /\ response' = ToolErr("Invalid time range", <<>>)
           ELSE IF invalid_time_interval(time_interval)
           THEN request' = done /\ response' = ToolErr("time_interval must be > 0", <<>>)
           ELSE IF stream_ref = NoStream
           THEN request' = done /\ response' = ToolErr("Stream not found", <<"streams">>)
           ELSE request' = req /\ response' = NoResponse
        /\ UNCHANGED <<taxonomies, primitive_events, metadata, clock>>

\* get_index: the metadata query, run when base_time is None
ReadDefaultBaseTime ==
    /\ request # Idle
    /\ request.pc = "metadata"
    /\ LET effective_base_time ==
               IF request.base_time = NULL
               THEN default_base_time(metadata, request.stream_ref)
               ELSE request.base_time
       IN  request' = [request EXCEPT
                          !.effective_base_time = effective_base_time,
                          !.pc = IF effective_base_time = NULL
                                 THEN "metadata_again" ELSE "base_value"]
    /\ UNCHANGED <<taxonomies, primitive_events, metadata, clock, response>>

\* _get_base_value called with base_time None: the metadata query once more
ReadDefaultBaseTimeAgain ==
    /\ request # Idle
    /\ request.pc = "metadata_again"
    /\ LET effective_base_time == default_base_time(metadata, request.stream_ref)
       IN  request' = [request EXCEPT
                          !.effective_base_time = effective_base_time,
                          !.pc = IF effective_base_time = NULL
                                 THEN "first_record" ELSE "base_value"]
    /\ UNCHANGED <<taxonomies, primitive_events, metadata, clock, response>>

\* _get_base_value without any base time: the first record ever
ReadFirstRecord ==
    /\ request # Idle
    /\ request.pc = "first_record"
    /\ LET first_record == get_first_record_primitive(
                               primitive_events, request.stream_ref,
                               request.frozen_at, NULL)
           base == IF first_record # {}
                   THEN [ status |-> "ok",
                          value |-> float((CHOOSE r \in first_record : TRUE).value) ]
                   ELSE Err("No base value found: no records in stream")
           next == after_base_value(request, base)
       IN  request' = next.request /\ response' = next.response
    /\ UNCHANGED <<taxonomies, primitive_events, metadata, clock>>

\* _get_base_value with a base time: the read at base_time, which returns the
\* base value or raises (the reads before and after it are never reached)
ReadBaseValue ==
    /\ request # Idle
    /\ request.pc = "base_value"
    /\ LET base == get_base_value(primitive_events, metadata, request.stream_ref,
                                  request.effective_base_time, request.frozen_at)
           next == after_base_value(request, base)
       IN  request' = next.request /\ response' = next.response
    /\ UNCHANGED <<taxonomies, primitive_events, metadata, clock>>

\* get_index: the read of the records and the index of each
ReadRecords ==
    /\ request # Idle
    /\ request.pc = "records"
    /\ LET result == read_index_records(
                         primitive_events, request.stream_ref,
                         call_from_time(request), call_to_time(request),
                         request.frozen_at, request.base_value)
           next == after_get_index(request, result)
       IN  request' = next.request /\ response' = next.response
    /\ UNCHANGED <<taxonomies, primitive_events, metadata, clock>>

\* Another process appends an observation while the call runs
ConcurrentInsertRecord(s, t, v) ==
    /\ request # Idle
    /\ request.pc # "done"
    /\ Cardinality(primitive_events) < MaxEvents
    /\ primitive_events' = primitive_events \cup
          { [stream_ref |-> s, event_time |-> t, created_at |-> clock, value |-> v] }
    /\ clock' = clock + 1
    /\ request' = [request EXCEPT
                      !.stores = @ \cup { StoreNow(primitive_events', metadata) }]
    /\ UNCHANGED <<taxonomies, metadata, response>>

\* Another process sets the stream's default_base_time while the call runs
ConcurrentInsertMetadata(s, v) ==
    /\ request # Idle
    /\ request.pc # "done"
    /\ Cardinality(metadata) < MaxMetadata
    /\ metadata' = metadata \cup
          { [ stream_ref |-> s, metadata_key |-> "default_base_time",
              value_i |-> v, created_at |-> clock, disabled_at |-> NULL ] }
    /\ clock' = clock + 1
    /\ request' = [request EXCEPT
                      !.stores = @ \cup { StoreNow(primitive_events, metadata') }]
    /\ UNCHANGED <<taxonomies, primitive_events, response>>

\* The caller takes the response of a finished call
ReturnDone ==
    /\ request # Idle
    /\ request.pc = "done"
    /\ Return

NextSnapshot ==
    \/ \E t \in Times, v \in Values : InsertRecord("A", t, v)
    \/ \E v \in Times : InsertMetadata("A", v)
    \/ \E f \in {NULL, 0}, t \in {NULL, MaxTime}, z \in FrozenAts, b \in {NULL, 0} :
          StartGetIndex("A", f, t, z, b)
    \/ \E f \in {1, MaxTime}, t \in {MaxTime}, z \in FrozenAts, b \in {NULL, 0} :
          StartToolGetIndexChange(<<"0", "x">> \o Repeat("a", 40),
                                  StreamKey("A").stream_id, f, t, 1, z, b)
    \/ ReadDefaultBaseTime
    \/ ReadDefaultBaseTimeAgain
    \/ ReadFirstRecord
    \/ ReadBaseValue
    \/ ReadRecords
    \/ \E t \in Times, v \in Values : ConcurrentInsertRecord("A", t, v)
    \/ \E v \in Times : ConcurrentInsertMetadata("A", v)
    \/ ReturnDone

SpecSnapshot == Init /\ [][NextSnapshot]_vars

IsStepped == request.op \in {"get_index_steps", "tool_get_index_change_steps"}

IsFinished == IsStepped /\ request.pc = "done"

\* The response of the current request when all its reads are run on store st
AtomicResponse(st) ==
    IF request.op = "get_index_steps"
    THEN get_index(st.pe, st.md, request.stream_id, request.from_time,
                   request.to_time, request.frozen_at, request.base_time)
    ELSE tool_get_index_change(taxonomies, st.pe, st.md, request.data_provider,
                               request.stream_id, request.from_time,
                               request.to_time, request.time_interval,
                               request.frozen_at, request.base_time)

\* C22: the response of a finished primitive get_index call and of a finished
\* get_index_change tool call is the response all its reads give when run on
\* one state of the store, one of those the store went through while the
\* call ran, whatever other processes appended between its reads.
C22_ConsistentView ==
    IsFinished => \E st \in request.stores : response = AtomicResponse(st)

----------------------------------------------------------------------------
(* C23, C24, C25: taxonomy resolution.  The writers of this specification    *)
(* define versions of C and D at any start time, a later version at the     *)
(* start time of an earlier one included, and disable single edges.         *)

MaxVersions == 3
MaxDisabled == 1

\* A writer defines a taxonomy version of a parent at any start time
DefineTaxonomy(g, start) ==
    LET mine == { t \in taxonomies : t.stream_ref = g.parent }
        gs   == IF mine = {} THEN 1
                ELSE 1 + MaxOf({ t.group_sequence : t \in mine })
    IN  /\ request = Idle
        /\ Cardinality({ <<t.stream_ref, t.group_sequence>> : t \in taxonomies })
              < MaxVersions
        /\ taxonomies' = taxonomies \cup
              { [ stream_ref |-> g.parent, child_stream_ref |-> c[1],
                  weight |-> c[2], start_time |-> start,
                  group_sequence |-> gs, disabled_at |-> NULL ] : c \in g.children }
        /\ UNCHANGED <<primitive_events, metadata, clock, request, response>>

\* A writer disables one edge: disabled_at becomes the instant of the store
DisableTaxonomy(parent, child, gs) ==
    /\ request = Idle
    /\ Cardinality({ t \in taxonomies : t.disabled_at # NULL }) < MaxDisabled
    /\ \E x \in taxonomies :
          /\ x.stream_ref = parent
          /\ x.child_stream_ref = child
          /\ x.group_sequence = gs
          /\ x.disabled_at = NULL
          /\ taxonomies' = (taxonomies \ {x}) \cup { [x EXCEPT !.disabled_at = clock] }
    /\ UNCHANGED <<primitive_events, metadata, clock, request, response>>

ResolutionMenu ==
    { [parent |-> "C", children |-> {<<"A", 1>>, <<"B", 1>>}],
      [parent |-> "C", children |-> {<<"A", 1>>, <<"D", 2>>}],
      [parent |-> "D", children |-> {<<"A", 3>>, <<"B", 1>>}] }

NextTaxonomy ==
    \/ \E s \in Primitives : InsertRecord(s, 0, 10)
    \/ \E g \in ResolutionMenu, start \in Times : DefineTaxonomy(g, start)
    \/ \E p \in {"C", "D"}, c \in StreamRefs, gs \in 1 .. MaxVersions :
          DisableTaxonomy(p, c, gs)
    \/ \E f \in {NULL, 1} : GetRecordComposed("C", f, NULL, NULL)
    \/ GetComposedIndex("C", NULL, NULL, NULL, NULL)
    \/ Return

SpecTaxonomy == Init /\ [][NextTaxonomy]_vars

\* The edges that are not disabled
EnabledEdges == { x \in taxonomies : x.disabled_at = NULL }

\* The enabled edges of the greatest group_sequence among the enabled edges
\* of their (parent, start_time)
ActiveEdges ==
    { x \in EnabledEdges :
        \A y \in EnabledEdges :
           (y.stream_ref = x.stream_ref /\ y.start_time = x.start_time)
              => y.group_sequence <= x.group_sequence }

\* The start times of a parent's enabled edges after S
LaterStarts(parent, S) ==
    { y.start_time : y \in { z \in EnabledEdges : /\ z.stream_ref = parent
                                                   /\ z.start_time > S } }

\* The last instant of the version of parent that starts at S; max_int8 - 1
\* stands for no upper bound
ActiveEnd(parent, S) ==
    IF LaterStarts(parent, S) = {} THEN max_int8 - 1
    ELSE MinOf(LaterStarts(parent, S)) - 1

\* taxonomy_true_segments of the current request, of either query
RequestTrueSegments ==
    taxonomy_true_segments(
        taxonomies, parent_next_starts(parent_distinct_start_times(taxonomies)))

IsResolution == IsComposedRequest \/ IsComposedIndexRequest

\* The hierarchy of the current request, of the query it runs
ResolvedHierarchy ==
    IF IsComposedRequest THEN RequestCtes.hierarchy ELSE RequestIndexCtes.hierarchy

\* C23: every segment of taxonomy_true_segments, and every step of every path
\* of the resolved hierarchy, comes from an edge that is not disabled and has
\* the greatest group_sequence among the enabled edges of its (parent,
\* start_time); the end of a segment is set by the start time of an enabled
\* edge only.
C23_OnlyActiveEdges ==
    IsResolution =>
        /\ \A seg \in RequestTrueSegments :
              /\ \E x \in ActiveEdges :
                    /\ x.stream_ref = seg.stream_ref
                    /\ x.child_stream_ref = seg.child_stream_ref
                    /\ x.weight = seg.weight_for_segment
                    /\ x.start_time = seg.segment_start
              /\ \/ seg.segment_end = max_int8 - 1
                 \/ \E y \in EnabledEdges : /\ y.stream_ref = seg.stream_ref
                                            /\ y.start_time = seg.segment_end + 1
        /\ \A r \in ResolvedHierarchy :
              \A i \in 2 .. Len(r.path) :
                 \E x \in ActiveEdges :
                    /\ x.stream_ref = r.path[i - 1]
                    /\ x.child_stream_ref = r.path[i]
                    /\ x.start_time <= r.path_end
                    /\ r.path_start <= ActiveEnd(x.stream_ref, x.start_time)

\* A request whose hierarchy is resolved from a store with an edge of an
\* older version and a disabled edge, and that returns a record
C23_Witness ==
    /\ IsResolution
    /\ ResolvedHierarchy # {}
    /\ response.records # <<>>
    /\ EnabledEdges \ ActiveEdges # {}
    /\ taxonomies \ EnabledEdges # {}

\* C24: every segment of a parent's version that starts at S is [S, N - 1], N
\* the next greater start time among that parent's enabled edges, and has no
\* upper bound when there is none; two segments of one parent with different
\* starts do not overlap, and the next one begins right after the end.
C24_ActiveInterval ==
    IsResolution =>
        /\ \A seg \in RequestTrueSegments :
              seg.segment_end = ActiveEnd(seg.stream_ref, seg.segment_start)
        /\ \A a, b \in RequestTrueSegments :
              (a.stream_ref = b.stream_ref /\ a.segment_start < b.segment_start)
                 => /\ a.segment_end < b.segment_start
                    /\ \E c \in RequestTrueSegments :
                          /\ c.stream_ref = a.stream_ref
                          /\ c.segment_start = a.segment_end + 1

\* A request over a store in which C has two versions, from 0 and from 2, and
\* D a version that starts between them
C24_Witness ==
    /\ IsResolution
    /\ response.records # <<>>
    /\ { s.segment_start : s \in { x \in RequestTrueSegments : x.stream_ref = "C" } }
          = {0, 2}
    /\ \E s \in RequestTrueSegments : s.stream_ref = "D" /\ s.segment_start = 1

RECURSIVE PathResolutions(_)
\* What the paths of active edges along a list of streams resolve to: the
\* product of the weights and the intersection of the active intervals
PathResolutions(path) ==
    IF Len(path) < 2 THEN { [weight |-> 1, start |-> 0, end |-> max_int8 - 1] }
    ELSE { [ weight |-> p.weight * x.weight,
             start  |-> GREATEST(p.start, x.start_time),
             end    |-> LEAST(p.end, ActiveEnd(x.stream_ref, x.start_time)) ] :
             p \in PathResolutions(SubSeq(path, 1, Len(path) - 1)),
             x \in { e \in ActiveEdges :
                       /\ e.stream_ref = path[Len(path) - 1]
                       /\ e.child_stream_ref = path[Len(path)] } }

\* C25: every row of primitive_weights of the record query is a path from the
\* root to a primitive stream: its weight is the product of the weights of
\* active edges along the path, its segment the intersection of their active
\* intervals, not empty; no composed stream is among the primitives.
C25_PathWeights ==
    IsComposedRequest =>
        \A w \in RequestCtes.primitive_weights :
           /\ w.primitive_stream_ref \in Primitives
           /\ w.path[1] = request.stream_id
           /\ w.path[Len(w.path)] = w.primitive_stream_ref
           /\ w.group_sequence_start <= w.group_sequence_end
           /\ [ weight |-> w.raw_weight, start |-> w.group_sequence_start,
                end |-> w.group_sequence_end ] \in PathResolutions(w.path)

\* A record request that reaches A under D under C with the weight 2 * 3, in
\* a segment that a later version on the path ends
C25_Witness ==
    /\ IsComposedRequest
    /\ response.records # <<>>
    /\ \E w \in RequestCtes.primitive_weights :
          /\ w.path = <<"C", "D", "A">>
          /\ w.raw_weight = 6
          /\ w.group_sequence_end < max_int8 - 1

----------------------------------------------------------------------------
(* C26: the value timeline of the contributing primitives *)

\* The points the timeline of stream s is to be built from: the latest
\* effective observation at or before effective_from, and every effective
\* observation in (effective_from, effective_to]
TimelinePoints(s) ==
    LET F == RequestParams.effective_frozen_at
        initial == LatestEffectiveAt(primitive_events, s, F, RequestParams.effective_from)
        interval == { e \in EffectiveObservations(primitive_events, s, F) :
                        /\ e.event_time > RequestParams.effective_from
                        /\ e.event_time <= RequestParams.effective_to }
    IN  { [stream_ref |-> e.stream_ref, event_time |-> e.event_time,
           value |-> e.value] : e \in initial \cup interval }

\* C26: all_primitive_points holds, for each contributing primitive, the
\* latest effective observation at or before effective_from and every
\* effective observation in (effective_from, effective_to], inside a weight
\* segment of the primitive or not, and nothing else.
C26_TimelineComplete ==
    IsComposedRequest =>
        RequestCtes.all_primitive_points =
            UNION { TimelinePoints(w.primitive_stream_ref) :
                      w \in RequestCtes.primitive_weights }

----------------------------------------------------------------------------
(* C27: the weight changes of the timeline *)

\* The event times of the effective observations of stream s under the
\* request's cutoff, up to the end of the request's window
ObservationTimes(s) ==
    { e.event_time :
        e \in { o \in EffectiveObservations(primitive_events, s,
                                              RequestParams.effective_frozen_at) :
                  o.event_time <= RequestParams.effective_to } }

\* The time a weight segment starts to count: the later of its start and of
\* the first observation ever of its primitive
WeightStart(w) ==
    GREATEST(w.group_sequence_start, MinOf(ObservationTimes(w.primitive_stream_ref)))

\* The weight segments that count at some time: the weight is not 0, the
\* primitive has an observation, and the segment has not ended before it
CountedSegments ==
    { w \in RequestCtes.primitive_weights :
        /\ w.raw_weight # 0
        /\ ObservationTimes(w.primitive_stream_ref) # {}
        /\ WeightStart(w) <= w.group_sequence_end }

\* The weight changes the claim describes
ExpectedWeightChanges ==
    { [ stream_ref |-> w.primitive_stream_ref, event_time |-> WeightStart(w),
        weight_delta |-> w.raw_weight, src |-> w ] : w \in CountedSegments }
    \cup
    { [ stream_ref |-> w.primitive_stream_ref,
        event_time |-> w.group_sequence_end + 1,
        weight_delta |-> 0 - w.raw_weight, src |-> w ] :
        w \in { x \in CountedSegments : x.group_sequence_end < max_int8 - 1 } }

\* The sum of the weight changes of stream s up to time t
CumulativeWeight(s, t) ==
    LET upto == { c \in RequestCtes.effective_weight_changes :
                    c.stream_ref = s /\ c.event_time <= t }
    IN  SUM([c \in upto |-> c.weight_delta], upto)

\* The sum of the weights of the segments of stream s that are active at t
\* and whose primitive has an observation at or before t
ActiveWeight(s, t) ==
    LET active == { w \in RequestCtes.primitive_weights :
                      /\ w.primitive_stream_ref = s
                      /\ w.group_sequence_start <= t
                      /\ t <= w.group_sequence_end
                      /\ \E o \in ObservationTimes(s) : o <= t }
    IN  SUM([w \in active |-> w.raw_weight], active)

\* C27: in a request with from_time <= to_time, or without one of them,
\* effective_weight_changes holds, for every weight segment with a
\* weight other than 0, +weight at the later of the segment's start and the
\* primitive's first observation ever, and -weight right after the segment's
\* end when it has one, both only if that start is not after the end; so the
\* cumulative weight of a primitive at any time of the request's window is
\* the sum of the weights of its segments active then, not negative, and 0
\* before its first observation.
C27_WeightDeltas ==
    (IsComposedRequest /\ RequestParams.effective_from <= RequestParams.effective_to) =>
        /\ RequestCtes.effective_weight_changes = ExpectedWeightChanges
        /\ \A s \in Primitives, t \in 0 .. MaxTime + 1 :
              t <= RequestParams.effective_to =>
                 /\ CumulativeWeight(s, t) = ActiveWeight(s, t)
                 /\ CumulativeWeight(s, t) >= 0

----------------------------------------------------------------------------
(* C28: the running sums of the timeline *)

IsExecuted == request.op = "execute_record_composed"

\* The value of stream s at time t: that of its latest point at or before t
\* among the points app, 0 when it has none
CurrentValue(app, s, t) ==
    LET pts == { p \in app : p.stream_ref = s /\ p.event_time <= t }
    IN  IF pts = {} THEN 0
        ELSE (CHOOSE p \in pts : \A o \in pts : o.event_time <= p.event_time).value

\* The weight of stream s at time t: the sum of its weight changes ewc at or
\* before t
CurrentWeight(ewc, s, t) ==
    LET upto == { c \in ewc : c.stream_ref = s /\ c.event_time <= t }
    IN  SUM([c \in upto |-> c.weight_delta], upto)

\* sum(value * weight) and sum(weight) over the primitives at time t
CurrentSums(app, ewc, t) ==
    [ cum_ws |-> SUM([s \in Primitives |->
                        CurrentValue(app, s, t) * CurrentWeight(ewc, s, t)], Primitives),
      cum_sw |-> SUM([s \in Primitives |-> CurrentWeight(ewc, s, t)], Primitives) ]

\* The running sums after the events up to and including t: the row of
\* cumulative_values that is latest at or before t, zeros when there is none
FoldedSums(cv, t) ==
    LET rows == { c \in cv : c.event_time <= t }
        last == CHOOSE c \in rows : \A o \in rows : o.event_time <= c.event_time
    IN  IF rows = {} THEN [cum_ws |-> 0, cum_sw |-> 0]
        ELSE [cum_ws |-> last.cum_ws, cum_sw |-> last.cum_sw]

\* C28: under every order of the rows with equal sort keys, after the events
\* up to and including any time t the cumulative numerator is the sum over
\* the primitives of value times weight at t and the cumulative denominator
\* the sum of the weights at t, also when value and weight of a primitive
\* change at one instant and when a primitive has several weight changes at
\* one instant.
C28_FoldedSums ==
    IsExecuted =>
        LET ctes == RequestCtes
            app == ctes.all_primitive_points
            ewc == ctes.effective_weight_changes
            sums == [t \in 0 .. MaxTime + 1 |-> CurrentSums(app, ewc, t)]
        IN  \A pst \in primitive_state_timelines(ctes.unified_events) :
               LET cv == cumulative_values(final_deltas(pst))
               IN  \A t \in 0 .. MaxTime + 1 : FoldedSums(cv, t) = sums[t]

\* A request with records in which the value and the weight of a primitive
\* change at one instant and a primitive has two weight changes at one instant
C28_Witness ==
    /\ IsExecuted
    /\ response.records # <<>>
    /\ \E a, b \in RequestCtes.unified_events :
          /\ a.stream_ref = b.stream_ref
          /\ a.event_time = b.event_time
          /\ a.event_type_priority = 1
          /\ b.event_type_priority = 2
    /\ \E a, b \in RequestCtes.unified_events :
          /\ a # b
          /\ a.stream_ref = b.stream_ref
          /\ a.event_time = b.event_time
          /\ a.event_type_priority = 2
          /\ b.event_type_priority = 2

----------------------------------------------------------------------------
(* C29: the anchor record of the composed index in range mode *)

IsIndexRangeRequest ==
    /\ IsComposedIndexRequest
    /\ request.from_time # NULL
    /\ request.from_time <= COALESCE(request.to_time, max_int8)
    /\ response.status = "ok"

\* The records of the response as a set
ResponseRecords == { response.records[i] : i \in 1 .. Len(response.records) }

\* The records carried forward from before the lower bound of the range
AnchorRecords == { r \in ResponseRecords : r.event_time < request.from_time }

\* The real change points of the request: the times of the final deltas and
\* of the events after the lower bound
RealChangePoints ==
    { d.event_time : d \in RequestIndexCtes.final_deltas }
       \cup { p.event_time :
                p \in { q \in RequestIndexCtes.all_primitive_points :
                          q.event_time > request.from_time } }

----------------------------------------------------------------------------
(* C30: the effective weights of the index hierarchy *)

\* The effective weight 1 of the root, as a NUMERIC
RootWeight == Scale

\* node_weight * (child weight / sum of the weights of the children of the
\* segment t of tts)
RenormalizedWeight(tts, node_weight, t) ==
    LET siblings == { s \in tts : /\ s.stream_ref = t.stream_ref
                                  /\ s.segment_start = t.segment_start
                                  /\ s.segment_end = t.segment_end }
        total == SUM([s \in siblings |-> s.weight_for_segment], siblings)
    IN  IF total = 0 THEN NULL
        ELSE numeric_mul(node_weight, numeric_div(t.weight_for_segment, total))

\* The rows of h made from the node n and its segment t, n.path being the
\* path from the root to the node
ChildRows(h, n, t) ==
    { r \in h : /\ r.path = Append(n.path, t.child_stream_ref)
                /\ r.path_start = GREATEST(n.path_start, t.segment_start)
                /\ r.path_end = LEAST(n.path_end, t.segment_end) }

\* The root as a node: weight 1 at all times
RootNode(stream_id) ==
    [ descendant_stream_ref |-> stream_id, effective_weight |-> RootWeight,
      path_start |-> 0, path_end |-> max_int8, path |-> <<stream_id>> ]

\* The children of node n in its segment (stream, segment_start) carry the
\* renormalized weights, which sum to the weight of n
SegmentRenormalized(h, tts, n, start) ==
    LET segment == { t \in tts : /\ t.stream_ref = n.descendant_stream_ref
                                 /\ t.segment_start = start }
        rows == UNION { ChildRows(h, n, t) : t \in segment }
    IN  /\ \A t \in segment :
              \A r \in ChildRows(h, n, t) :
                 r.effective_weight = RenormalizedWeight(tts, n.effective_weight, t)
        /\ rows # {} =>
              SUM([r \in rows |-> r.effective_weight], rows) = n.effective_weight

\* The rule at the nodes below the root
NodesRenormalized(h, tts) ==
    \A n \in h : \A start \in Times : SegmentRenormalized(h, tts, n, start)

\* The rule at the root
RootRenormalized(h, tts, stream_id) ==
    \A start \in Times : SegmentRenormalized(h, tts, RootNode(stream_id), start)

\* C30: in the hierarchy of the composed index, for every composed node and
\* each of its taxonomy segments, the effective weight of a child is the
\* node's effective weight times the child's weight divided by the sum of
\* the weights of the node's children in that segment; the children's
\* effective weights sum to the node's, and those of the root's direct
\* children sum to 1.
C30_EffectiveWeights ==
    IsComposedIndexRequest =>
        /\ NodesRenormalized(RequestIndexCtes.hierarchy, RequestTrueSegments)
        /\ RootRenormalized(RequestIndexCtes.hierarchy, RequestTrueSegments,
                            request.stream_id)

====
